---- MODULE Spec2Model ----
(***************************************************************************)
(* Model of the file/folder syncing engine of PandoraLauncher              *)
(* (crates/backend/src/syncing.rs, unix build of `mod linking`) and of the *)
(* legacy sync-target migration (crates/schema/src/backend_config.rs).     *)
(*                                                                         *)
(* The filesystem is a function from locations <<d, n>> to entries, where  *)
(* d = 0 is the shared store (`synced_dir`), d \in 1..NumInst is the       *)
(* `.minecraft` directory of instance d, and n is a relative path.         *)
(***************************************************************************)
EXTENDS Integers, Sequences, FiniteSets, TLC

VARIABLES
    fs,        \* the filesystem: location -> entry
    cfg,       \* BackendConfig.sync_targets
    disabled,  \* the disable_file_syncing flag of every instance
    now,       \* the clock that stamps created and modified entries
    stored,    \* the persisted sync_targets value the configuration loads
    op,        \* the last call and its result
    pre,       \* the filesystem before the last call
    run,       \* the run of identical calls the last call belongs to
    inj,       \* what the environment gave the last call
    procs,     \* the calls in progress, one filesystem step at a time
    page       \* the syncing page and its requests to the backend

vars == <<fs, cfg, disabled, now, stored, op, pre, run, inj, procs, page>>

----------------------------------------------------------------------------
(* Bounds *)

NumInst == 2
NumOptInst == 3
NumBulkInst == 3
NumFileInst == 3
MaxTime == 3

Store == 0

----------------------------------------------------------------------------
(* Names *)

FallbackName == "fallback_options.txt"
OptionsName == "options.txt"

DEFAULT_FOLDERS ==
    << "saves", "config", "screenshots", "resourcepacks", "shaderpacks",
       "flashback", "Distant_Horizons_server_data", ".voxy", "xaero",
       ".bobby", "schematics" >>

\* A string that SafePath::new rejects (parent-directory escape).
BadName == "../evil"

\* The relative paths whose entries the model tracks; every other path is
\* absent in every directory and no operation of the model names it.
TrackedNames ==
    {"saves", "config", "config/sub", OptionsName, "servers.dat", FallbackName}

\* Path::parent of a tracked relative path; "" is the root it is joined to.
Parent(name) == IF name = "config/sub" THEN "config" ELSE ""

TopNames == {n \in TrackedNames : Parent(n) = ""}

Children(name) == {n \in TrackedNames : Parent(n) = name}

\* Byte order of the strings, as BTreeSet<Arc<str>> iterates them.
SortedNames ==
    << "../evil", ".bobby", ".voxy", "Distant_Horizons_server_data", "config",
       "config/sub", "fallback_options.txt", "flashback", "options.txt", "resourcepacks",
       "saves", "schematics", "screenshots", "servers.dat", "shaderpacks",
       "xaero" >>

SafePathNew(name) == name # BadName

\* SafePath::from_relative_path of a path the walk of an instance yields.
SafePathFromRelative(name) == name # BadName

----------------------------------------------------------------------------
(* Filesystem entries *)

NoTarget == <<-2, "">>
ExtDir == <<-1, "dir">>       \* an existing directory outside the store
ExtGone == <<-1, "gone">>     \* a path outside the store that does not exist

None == [k |-> "none", to |-> NoTarget, data |-> <<>>, time |-> 0]
Dir(t) == [k |-> "dir", to |-> NoTarget, data |-> <<>>, time |-> t]
File(d, t) == [k |-> "file", to |-> NoTarget, data |-> d, time |-> t]
Link(target) == [k |-> "link", to |-> target, data |-> <<>>, time |-> 0]

\* The locations of a store and n instance directories.
Locs(n) == (0..n) \X TrackedNames

Nowhere == <<-4, "">>

\* The location a path names: a path below a directory that is a symlink
\* to its shared subdirectory names the entry in the shared store; below a
\* symlink to anything else it names nothing the model tracks.
Loc(f, p) ==
    IF p \notin DOMAIN f \/ Parent(p[2]) = "" THEN p
    ELSE LET e == f[<<p[1], Parent(p[2])>>]
         IN IF e.k # "link" THEN p
            ELSE IF e.to = <<Store, Parent(p[2])>> THEN <<Store, p[2]>>
            ELSE Nowhere

\* Op applied to v: v is written, and evaluated, once where a definition
\* uses it several times.
With(v, Op(_)) == Op(v)

Get(f, p) ==
    With(Loc(f, p), LAMBDA q : IF q \in DOMAIN f THEN f[q] ELSE None)

Put(f, p, e) == [f EXCEPT ![Loc(f, p)] = e]

\* The location a path denotes once a symlink at it is followed.
Resolve(f, p) ==
    With(Get(f, p), LAMBDA e : IF e.k = "link" THEN e.to ELSE Loc(f, p))

\* The entry seen by a call that follows symlinks (stat, open).
Stat(f, p) ==
    With(Resolve(f, p), LAMBDA q :
        IF q = ExtDir THEN Dir(0)
        ELSE IF q = ExtGone THEN None
        ELSE Get(f, q))

\* Path::exists
Exists(f, p) == Stat(f, p).k # "none"

\* Path::is_dir
IsDir(f, p) == Stat(f, p).k = "dir"

\* A result of a filesystem call: the filesystem afterwards, whether the
\* call succeeded, and the number of mutations it made.
Res(f, ok, m) == [fs |-> f, ok |-> ok, muts |-> m]

\* Whether an entry can be made or unmade at a path: its parent is a
\* directory and the directory that holds it accepts the change.
Writable(f, p, deny) ==
    /\ With(Loc(f, p), LAMBDA q : q \in DOMAIN f /\ q[1] \notin deny)
    /\ Parent(p[2]) # "" => IsDir(f, <<p[1], Parent(p[2])>>)

\* std::fs::create_dir_all below a root that exists: the missing ancestors
\* are made first.
RECURSIVE create_dir_all(_, _, _)
create_dir_all(f, p, deny) ==
    IF IsDir(f, p) THEN Res(f, TRUE, 0)
    ELSE IF Get(f, p).k # "none" THEN Res(f, FALSE, 0)
    ELSE With(IF Parent(p[2]) = "" THEN Res(f, TRUE, 0)
              ELSE create_dir_all(f, <<p[1], Parent(p[2])>>, deny),
              LAMBDA r :
                  IF ~r.ok \/ ~Writable(r.fs, p, deny)
                  THEN Res(r.fs, FALSE, r.muts)
                  ELSE Res(Put(r.fs, p, Dir(now)), TRUE, r.muts + 1))

\* create_dir_all(path.parent()), its result ignored by every caller.
create_parent(f, p, deny) ==
    IF Parent(p[2]) = "" THEN Res(f, TRUE, 0)
    ELSE create_dir_all(f, <<p[1], Parent(p[2])>>, deny)

\* std::fs::remove_file
remove_file(f, p, deny) ==
    IF Get(f, p).k \notin {"file", "link"} \/ ~Writable(f, p, deny)
    THEN Res(f, FALSE, 0)
    ELSE Res(Put(f, p, None), TRUE, 1)

----------------------------------------------------------------------------
(* mod linking (unix) *)

link_dir(f, original, link, deny) ==
    IF Get(f, link).k # "none" \/ ~Writable(f, link, deny)
    THEN Res(f, FALSE, 0)
    ELSE Res(Put(f, link, Link(original)), TRUE, 1)

is_targeting(f, original, link) ==
    Get(f, link).k = "link" /\ Get(f, link).to = original

\* Mutant: the link is removed whatever it points at.
unlink_dir_any(f, original, link, deny) ==
    IF Get(f, link).k # "link" THEN Res(f, TRUE, 0)
    ELSE remove_file(f, link, deny)

\* Mutant: the link is removed when its target is anywhere in the store.
unlink_dir_if_in_store(f, original, link, deny) ==
    IF Get(f, link).k # "link" THEN Res(f, TRUE, 0)
    ELSE IF Get(f, link).to[1] = original[1] THEN remove_file(f, link, deny)
    ELSE Res(f, TRUE, 0)

unlink_dir_if_targeting(f, original, link, deny) ==
    With(Get(f, link), LAMBDA target :
        IF target.k # "link" THEN Res(f, TRUE, 0)
        ELSE IF target.to = original THEN remove_file(f, link, deny)
        ELSE Res(f, TRUE, 0))

----------------------------------------------------------------------------
(* Helpers on sequences *)

RECURSIVE SeqOfRange(_, _)
SeqOfRange(a, b) == IF a > b THEN <<>> ELSE <<a>> \o SeqOfRange(a + 1, b)

\* The instance registry, in its iteration order; `dis` holds the
\* disable_file_syncing flag of every instance.
Registry(dis) == SeqOfRange(1, Len(dis))

\* The members of a set of names in BTreeSet iteration order.
Sorted(S) == SelectSeq(SortedNames, LAMBDA x : x \in S)

Range(s) == {s[x] : x \in DOMAIN s}

----------------------------------------------------------------------------
(* enable_all *)

\* Mutant: the disable_file_syncing flag is not looked at.
AllPaths(dis, name) ==
    [x \in DOMAIN Registry(dis) |-> <<Registry(dis)[x], name>>]

\* `name` resolved against the dot_minecraft path of every instance whose
\* disable_file_syncing flag is off.
EligiblePaths(dis, name) ==
    LET elig == SelectSeq(Registry(dis), LAMBDA i : ~dis[i])
    IN [x \in DOMAIN elig |-> <<elig[x], name>>]

\* Mutant: the links already in place are not excluded.
retain_all(f, target_dir, paths) == paths

RECURSIVE retain_not_targeting(_, _, _)
retain_not_targeting(f, target_dir, paths) ==
    IF paths = <<>> THEN <<>>
    ELSE IF ~is_targeting(f, target_dir, Head(paths))
         THEN <<Head(paths)>> \o retain_not_targeting(f, target_dir, Tail(paths))
         ELSE retain_not_targeting(f, target_dir, Tail(paths))

RECURSIVE any_exists(_, _)
any_exists(f, paths) ==
    IF paths = <<>> THEN FALSE
    ELSE IF Exists(f, Head(paths)) THEN TRUE
    ELSE any_exists(f, Tail(paths))

RECURSIVE enable_links(_, _, _, _, _)
enable_links(f, target_dir, paths, deny, m) ==
    IF paths = <<>> THEN [fs |-> f, ret |-> "true", muts |-> m]
    ELSE With(create_parent(f, Head(paths), deny), LAMBDA r0 :
         With(link_dir(r0.fs, target_dir, Head(paths), deny), LAMBDA r :
             IF ~r.ok THEN [fs |-> r0.fs, ret |-> "err", muts |-> m + r0.muts]
             ELSE enable_links(r.fs, target_dir, Tail(paths), deny,
                               m + r0.muts + r.muts)))

\* Mutant: the shared subdirectory is not created before linking.
enable_all_no_create(f, name, is_file, dis, deny) ==
    IF is_file THEN [fs |-> f, ret |-> "true", muts |-> 0]
    ELSE IF ~SafePathNew(name) THEN [fs |-> f, ret |-> "false", muts |-> 0]
    ELSE LET target_dir == <<Store, name>>
             paths == retain_not_targeting(f, target_dir, EligiblePaths(dis, name))
         IN IF any_exists(f, paths) THEN [fs |-> f, ret |-> "false", muts |-> 0]
            ELSE enable_links(f, target_dir, paths, deny, 0)

\* Mutant: a request whose name is not a safe path is reported as done.
enable_all_invalid_ok(f, name, is_file, dis, deny) ==
    IF is_file \/ ~SafePathNew(name) THEN [fs |-> f, ret |-> "true", muts |-> 0]
    ELSE LET target_dir == <<Store, name>>
             paths == retain_not_targeting(f, target_dir, EligiblePaths(dis, name))
         IN IF any_exists(f, paths) THEN [fs |-> f, ret |-> "false", muts |-> 0]
            ELSE LET r == create_dir_all(f, target_dir, deny)
                 IN IF ~r.ok THEN [fs |-> f, ret |-> "err", muts |-> 0]
                    ELSE enable_links(r.fs, target_dir, paths, deny, r.muts)

enable_all(f, name, is_file, dis, deny) ==
    IF is_file THEN [fs |-> f, ret |-> "true", muts |-> 0]
    ELSE IF ~SafePathNew(name) THEN [fs |-> f, ret |-> "false", muts |-> 0]
    ELSE LET target_dir == <<Store, name>>
         IN With(retain_not_targeting(f, target_dir, EligiblePaths(dis, name)),
                 LAMBDA paths :
            IF any_exists(f, paths) THEN [fs |-> f, ret |-> "false", muts |-> 0]
            ELSE With(create_dir_all(f, target_dir, deny), LAMBDA r :
                     IF ~r.ok THEN [fs |-> f, ret |-> "err", muts |-> 0]
                     ELSE enable_links(r.fs, target_dir, paths, deny, r.muts)))

----------------------------------------------------------------------------
(* disable_all *)

\* Mutant: a failed unlink is passed over and the loop goes on.
RECURSIVE disable_unlinks_swallowing(_, _, _, _, _)
disable_unlinks_swallowing(f, target_dir, paths, deny, m) ==
    IF paths = <<>> THEN [fs |-> f, ret |-> "ok", muts |-> m]
    ELSE LET r == unlink_dir_if_targeting(f, target_dir, Head(paths), deny)
         IN disable_unlinks_swallowing(r.fs, target_dir, Tail(paths), deny,
                                       m + r.muts)

RECURSIVE disable_unlinks(_, _, _, _, _)
disable_unlinks(f, target_dir, paths, deny, m) ==
    IF paths = <<>> THEN [fs |-> f, ret |-> "ok", muts |-> m]
    ELSE With(unlink_dir_if_targeting(f, target_dir, Head(paths), deny),
              LAMBDA r :
                  IF ~r.ok THEN [fs |-> f, ret |-> "err", muts |-> m]
                  ELSE disable_unlinks(r.fs, target_dir, Tail(paths), deny,
                                       m + r.muts))

\* `order` is the order in which read_dir yields the instance directories.
disable_all(f, name, is_file, order, deny) ==
    IF is_file THEN [fs |-> f, ret |-> "ok", muts |-> 0]
    ELSE IF ~SafePathNew(name) THEN [fs |-> f, ret |-> "ok", muts |-> 0]
    ELSE LET paths == [x \in DOMAIN order |-> <<order[x], name>>]
         IN disable_unlinks(f, <<Store, name>>, paths, deny, 0)

----------------------------------------------------------------------------
(* get_sync_state *)

SyncTargetState(enabled, is_file, sync_count, cannot_sync_count) ==
    [enabled |-> enabled, is_file |-> is_file, sync_count |-> sync_count,
     cannot_sync_count |-> cannot_sync_count]

\* BTreeMap::insert
Insert(m, key, v) ==
    [x \in (DOMAIN m) \cup {key} |-> IF x = key THEN v ELSE m[x]]

RECURSIVE count_dirs(_, _)
count_dirs(f, paths) ==
    IF paths = <<>> THEN 0
    ELSE (IF IsDir(f, Head(paths)) THEN 1 ELSE 0) + count_dirs(f, Tail(paths))

RECURSIVE state_files(_, _, _, _)
state_files(f, files, dis, entries) ==
    IF files = <<>> THEN entries
    ELSE LET file_target == Head(files)
             total == Len(EligiblePaths(dis, file_target))
             cannot == count_dirs(f, EligiblePaths(dis, file_target))
             st == IF SafePathNew(file_target)
                   THEN SyncTargetState(TRUE, TRUE,
                            IF total >= cannot THEN total - cannot ELSE 0, cannot)
                   ELSE SyncTargetState(TRUE, TRUE, 0, total)
         IN state_files(f, Tail(files), dis, Insert(entries, file_target, st))

\* The two counters of one folder target after the scan of `paths`.
RECURSIVE count_folder(_, _, _, _, _)
count_folder(f, target_dir, paths, sync_count, cannot_sync_count) ==
    IF paths = <<>> THEN <<sync_count, cannot_sync_count>>
    ELSE IF is_targeting(f, target_dir, Head(paths))
         THEN count_folder(f, target_dir, Tail(paths), sync_count + 1, cannot_sync_count)
    ELSE IF Exists(f, Head(paths))
         THEN count_folder(f, target_dir, Tail(paths), sync_count, cannot_sync_count + 1)
    ELSE count_folder(f, target_dir, Tail(paths), sync_count, cannot_sync_count)

\* `folders` is the chain of (name, enabled) pairs.
RECURSIVE state_folders(_, _, _, _)
state_folders(f, folders, dis, entries) ==
    IF folders = <<>> THEN entries
    ELSE LET folder_target == Head(folders)[1]
             enabled == Head(folders)[2]
             paths == EligiblePaths(dis, folder_target)
             c == count_folder(f, <<Store, folder_target>>, paths, 0, 0)
             st == IF SafePathNew(folder_target)
                   THEN SyncTargetState(enabled, FALSE, c[1], c[2])
                   ELSE SyncTargetState(enabled, FALSE, 0, Len(paths))
         IN state_folders(f, Tail(folders), dis, Insert(entries, folder_target, st))

\* Mutant: only the folders of the configuration are reported.
get_sync_state_enabled_only(f, sync_targets, dis) ==
    LET total == Len(SelectSeq(Registry(dis), LAMBDA i : ~dis[i]))
        enabled_seq == Sorted(sync_targets.folders)
        chain == [x \in DOMAIN enabled_seq |-> <<enabled_seq[x], TRUE>>]
        e1 == state_files(f, Sorted(sync_targets.files), dis, <<>>)
        e2 == state_folders(f, chain, dis, e1)
    IN [targets |-> e2, total_count |-> total]

get_sync_state(f, sync_targets, dis) ==
    LET total == Len(SelectSeq(Registry(dis), LAMBDA i : ~dis[i]))
        enabled_seq == Sorted(sync_targets.folders)
        disabled_seq == SelectSeq(DEFAULT_FOLDERS,
                                  LAMBDA d : d \notin sync_targets.folders)
        chain == [x \in DOMAIN enabled_seq |-> <<enabled_seq[x], TRUE>>]
                 \o [x \in DOMAIN disabled_seq |-> <<disabled_seq[x], FALSE>>]
        e1 == state_files(f, Sorted(sync_targets.files), dis, <<>>)
        e2 == state_folders(f, chain, dis, e1)
    IN [targets |-> e2, total_count |-> total]

----------------------------------------------------------------------------
(* options.txt: text is a sequence of lines, a line a sequence of           *)
(* characters; a name such as "resourcePacks" stands for its characters.    *)

ResourcePacks == <<"resourcePacks">>
IncompatibleResourcePacks == <<"incompatibleResourcePacks">>

\* <[u8]>::trim_ascii
RECURSIVE trim_ascii(_)
trim_ascii(line) ==
    IF line = <<>> THEN line
    ELSE IF Head(line) = " " THEN trim_ascii(Tail(line))
    ELSE IF line[Len(line)] = " " THEN trim_ascii(SubSeq(line, 1, Len(line) - 1))
    ELSE line

\* The index of the first ':' of a line, 0 when it has none.
RECURSIVE find_colon(_, _)
find_colon(line, x) ==
    IF x > Len(line) THEN 0
    ELSE IF line[x] = ":" THEN x
    ELSE find_colon(line, x + 1)

\* FxHashMap::insert
MapInsert(values, key, value) ==
    [x \in (DOMAIN values) \cup {key} |-> IF x = key THEN value ELSE values[x]]

RECURSIVE parse_lines(_, _)
parse_lines(lines, values) ==
    IF lines = <<>> THEN values
    ELSE LET line == trim_ascii(Head(lines))
             c == find_colon(line, 1)
         IN IF c = 0 THEN parse_lines(Tail(lines), values)
            ELSE parse_lines(Tail(lines),
                     MapInsert(values, SubSeq(line, 1, c - 1),
                               SubSeq(line, c + 1, Len(line))))

read_options_txt(f, path) ==
    With(Stat(f, path), LAMBDA file :
        IF file.k # "file" THEN <<>> ELSE parse_lines(file.data, <<>>))

\* One "key:value" line per entry, in the iteration order of the map (an
\* order fixed by the map, here the order CHOOSE fixes).
RECURSIVE create_options_txt(_)
create_options_txt(values) ==
    IF DOMAIN values = {} THEN <<>>
    ELSE LET key == CHOOSE x \in DOMAIN values : TRUE
             rest == [x \in (DOMAIN values) \ {key} |-> values[x]]
         IN << key \o <<":">> \o values[key] >> \o create_options_txt(rest)

\* max(created, modified) of the file at `path`, UNIX_EPOCH when it has no
\* metadata.
TouchTime(f, path) ==
    With(Stat(f, path), LAMBDA metadata :
        IF metadata.k # "none" THEN metadata.time ELSE 0)

\* Vec::sort_by_key on (time, path) pairs: stable, ascending by time.
RECURSIVE insert_sorted(_, _)
insert_sorted(sorted, x) ==
    IF sorted = <<>> THEN <<x>>
    ELSE IF x[1] < sorted[Len(sorted)][1]
         THEN insert_sorted(SubSeq(sorted, 1, Len(sorted) - 1), x)
              \o <<sorted[Len(sorted)]>>
    ELSE sorted \o <<x>>

RECURSIVE sort_by_key(_)
sort_by_key(paths) ==
    IF paths = <<>> THEN <<>>
    ELSE insert_sorted(sort_by_key(SubSeq(paths, 1, Len(paths) - 1)),
                       paths[Len(paths)])

Remove(values, key) == [x \in (DOMAIN values) \ {key} |-> values[x]]

RECURSIVE fold_options(_, _, _, _)
fold_options(f, paths, current, values) ==
    IF paths = <<>> THEN values
    ELSE LET path == Head(paths)[2]
             read == read_options_txt(f, path)
             new_values == IF path # current
                           THEN Remove(Remove(read, ResourcePacks),
                                       IncompatibleResourcePacks)
                           ELSE read
             merged == [x \in (DOMAIN values) \cup (DOMAIN new_values) |->
                           IF x \in DOMAIN new_values THEN new_values[x]
                           ELSE values[x]]
         IN fold_options(f, Tail(paths), current, merged)

\* Mutant: the instances are folded in read_dir order, not by time.
combined_values_unsorted(f, fallback, current, order) ==
    LET paths == [x \in DOMAIN order |->
                     <<TouchTime(f, <<order[x], OptionsName>>),
                       <<order[x], OptionsName>> >>]
    IN fold_options(f, paths, current, read_options_txt(f, fallback))

\* The merged mapping, before it is serialised.
combined_values(f, fallback, current, order) ==
    LET paths == [x \in DOMAIN order |->
                     <<TouchTime(f, <<order[x], OptionsName>>),
                       <<order[x], OptionsName>> >>]
    IN fold_options(f, sort_by_key(paths), current,
                    read_options_txt(f, fallback))

create_combined_options_txt(f, fallback, current, order) ==
    create_options_txt(combined_values(f, fallback, current, order))

----------------------------------------------------------------------------
(* File writes *)

\* open(path, O_WRONLY | O_CREAT | O_TRUNC) followed by a write of `data`:
\* the write goes to the location the path resolves to.
write_through(f, path, data, deny) ==
    With(Resolve(f, path), LAMBDA q :
        IF q \notin DOMAIN f \/ q[1] \in deny THEN Res(f, FALSE, 0)
        ELSE IF f[q].k \notin {"none", "file"} THEN Res(f, FALSE, 0)
        ELSE Res([f EXCEPT ![q] = File(data, now)], TRUE, 1))

\* std::fs::copy: the source must be a regular file; a file copied onto
\* itself is truncated before it is read.
copy(f, from, to, deny) ==
    With(Stat(f, from), LAMBDA source :
        IF source.k # "file" THEN Res(f, FALSE, 0)
        ELSE write_through(f, to,
                 IF Resolve(f, from) = Resolve(f, to) THEN <<>>
                 ELSE source.data, deny))

\* crate::write_safe
write_safe(f, path, data, deny) == write_through(f, path, data, deny)

----------------------------------------------------------------------------
(* find_latest *)

NoPath == <<-3, "">>

\* Mutant: a copy as recent as the latest so far replaces it.
RECURSIVE find_latest_scan_last(_, _, _, _, _)
find_latest_scan_last(f, filename, order, latest_time, latest_path) ==
    IF order = <<>> THEN latest_path
    ELSE LET path == <<Head(order), filename>>
         IN IF Exists(f, path)
               /\ (latest_path = NoPath \/ Stat(f, path).time >= latest_time)
            THEN find_latest_scan_last(f, filename, Tail(order),
                                       Stat(f, path).time, path)
            ELSE find_latest_scan_last(f, filename, Tail(order),
                                       latest_time, latest_path)

RECURSIVE find_latest_scan(_, _, _, _, _)
find_latest_scan(f, filename, order, latest_time, latest_path) ==
    IF order = <<>> THEN latest_path
    ELSE LET path == <<Head(order), filename>>
         IN With(Stat(f, path), LAMBDA metadata :
                IF metadata.k # "none"
                   /\ (latest_path = NoPath \/ metadata.time > latest_time)
                THEN find_latest_scan(f, filename, Tail(order),
                                      metadata.time, path)
                ELSE find_latest_scan(f, filename, Tail(order),
                                      latest_time, latest_path))

find_latest(f, filename, order) == find_latest_scan(f, filename, order, 0, NoPath)

----------------------------------------------------------------------------
(* apply_to_instance *)

\* What the walk is given: the order in which the entries of the instance
\* root are yielded, and the directories whose listing cannot be read.
Walk(order, unreadable) == [order |-> order, unreadable |-> unreadable]

\* The symlink branch of the cleanup pass (unix build): a symlink that is not
\* a folder target and whose target starts with synced_dir is removed, a
\* failure ignored.
cleanup_symlink(f, folders, path, deny) ==
    With(Get(f, path), LAMBDA e :
        IF e.k = "link" /\ path[2] \notin folders /\ e.to[1] = Store
        THEN With(remove_file(f, path, deny),
                  LAMBDA r : Res(r.fs, TRUE, r.muts))
        ELSE Res(f, TRUE, 0))

\* The directory branch: the walk goes on below a real directory unless one
\* of the four tests calls skip_current_dir.
cleanup_descends(f, folders, path) ==
    /\ Get(f, path).k = "dir"
    /\ path[2] \notin folders
    /\ SafePathFromRelative(path[2])
    /\ IsDir(f, <<Store, path[2]>>)

\* The walk, depth first over the entries still to yield; it ends when the
\* iterator yields an error, which it does for a directory it goes below
\* and cannot list.
RECURSIVE cleanup_walk(_, _, _, _, _, _, _)
cleanup_walk(f, folders, i, names, unreadable, deny, m) ==
    IF names = <<>> THEN Res(f, TRUE, m)
    ELSE LET path == <<i, Head(names)>>
         IN IF cleanup_descends(f, folders, path)
            THEN IF path \in unreadable THEN Res(f, FALSE, m)
                 ELSE cleanup_walk(f, folders, i,
                          Sorted(Children(Head(names))) \o Tail(names),
                          unreadable, deny, m)
            ELSE With(cleanup_symlink(f, folders, path, deny), LAMBDA r :
                     cleanup_walk(r.fs, folders, i, Tail(names), unreadable,
                                  deny, m + r.muts))

cleanup(f, folders, i, walk, deny, m) ==
    cleanup_walk(f, folders, i, walk.order, walk.unreadable, deny, m)

apply_options(f, i, order, deny) ==
    LET fallback == <<Store, FallbackName>>
        target == <<i, OptionsName>>
    IN With(create_combined_options_txt(f, fallback, target, order),
            LAMBDA combined :
       With(write_safe(f, fallback, combined, deny), LAMBDA r1 :
       With(write_safe(r1.fs, target, combined, deny), LAMBDA r2 :
           Res(r2.fs, TRUE, r1.muts + r2.muts))))

apply_file(f, file_target, i, order, deny) ==
    LET target == <<i, file_target>>
    IN With(find_latest(f, file_target, order), LAMBDA latest :
           IF latest = NoPath \/ latest = target THEN Res(f, TRUE, 0)
           ELSE With(create_parent(f, target, deny), LAMBDA r0 :
                With(copy(r0.fs, latest, target, deny), LAMBDA r :
                    Res(r.fs, TRUE, r0.muts + r.muts))))

RECURSIVE apply_files(_, _, _, _, _, _)
apply_files(f, files, i, order, deny, m) ==
    IF files = <<>> THEN Res(f, TRUE, m)
    ELSE LET file_target == Head(files)
         IN With(IF file_target = OptionsName
                 THEN apply_options(f, i, order, deny)
                 ELSE IF SafePathNew(file_target)
                 THEN apply_file(f, file_target, i, order, deny)
                 ELSE Res(f, TRUE, 0),
                 LAMBDA r : apply_files(r.fs, Tail(files), i, order, deny,
                                        m + r.muts))

apply_folder(f, folder_target, i, deny) ==
    LET target_dir == <<Store, folder_target>>
        path == <<i, folder_target>>
    IN IF Exists(f, path) THEN Res(f, TRUE, 0)
       ELSE With(create_dir_all(f, target_dir, deny), LAMBDA r1 :
            With(create_parent(r1.fs, path, deny), LAMBDA r0 :
            With(link_dir(r0.fs, target_dir, path, deny), LAMBDA r2 :
                Res(r2.fs, TRUE, r1.muts + r0.muts + r2.muts))))

RECURSIVE apply_folders(_, _, _, _, _)
apply_folders(f, folders, i, deny, m) ==
    IF folders = <<>> THEN Res(f, TRUE, m)
    ELSE With(IF SafePathNew(Head(folders))
              THEN apply_folder(f, Head(folders), i, deny)
              ELSE Res(f, TRUE, 0),
              LAMBDA r : apply_folders(r.fs, Tail(folders), i, deny, m + r.muts))

\* `order` is the order in which read_dir yields the instance directories.
apply_to_instance(f, sync_targets, i, order, walk, deny) ==
    With(cleanup(f, sync_targets.folders, i, walk, deny, 0), LAMBDA r1 :
    With(apply_files(r1.fs, Sorted(sync_targets.files), i, order, deny, r1.muts),
         LAMBDA r2 :
    With(apply_folders(r2.fs, Sorted(sync_targets.folders), i, deny, r2.muts),
         LAMBDA r3 : [fs |-> r3.fs, ret |-> "ok", muts |-> r3.muts])))

----------------------------------------------------------------------------
(* The operations as actions.  `op` records the last call, what it          *)
(* returned, how many filesystem mutations it made and whether it repeats   *)
(* the call before it (same operation, same arguments); `pre` is the        *)
(* filesystem before it.  `run` keeps, over a run of such repeated calls,    *)
(* the filesystem before the first of them and what the call before the     *)
(* last returned; `inj` keeps what the environment gave the last call: the  *)
(* read_dir order, the walk of the instance root and the directories in     *)
(* which a change fails.                                                    *)

Run(f, ret) == [fs |-> f, ret |-> ret]

Injected(order, walk, deny) == [order |-> order, walk |-> walk, deny |-> deny]

\* The walk a call that walks nothing is given.
NoWalk == Walk(<<>>, {})

NoInjected == Injected(<<>>, NoWalk, {})

\* The run of a specification that keeps no history.
NoRun == Run(<<>>, "")

Call(name, i, target, is_file, r) ==
    /\ fs' = r.fs
    /\ pre' = fs
    /\ op' = [name |-> name, i |-> i, target |-> target, is_file |-> is_file,
              ret |-> r.ret, muts |-> r.muts,
              rep |-> (op.name = name /\ op.i = i /\ op.target = target
                       /\ op.is_file = is_file)]
    /\ UNCHANGED <<cfg, disabled, now, stored, procs, page>>

\* The history of the call: `hist` names the history variables that are
\* kept, the others are left alone.
History(hist, name, i, target, is_file, order, walk, deny) ==
    /\ run' = IF "run" \notin hist THEN run
              ELSE IF op.name = name /\ op.i = i /\ op.target = target
                      /\ op.is_file = is_file
              THEN Run(run.fs, op.ret)
              ELSE Run(fs, "")
    /\ inj' = IF "inj" \in hist THEN Injected(order, walk, deny) ELSE inj

\* The orders in which read_dir may yield n instance directories that the
\* model explores: ascending and descending.
ReadDirOrders(n) ==
    { SeqOfRange(1, n), [x \in 1..n |-> n + 1 - x] }

\* The orders in which the walk may yield the entries of an instance root
\* that the model explores: ascending and descending.
WalkOrders ==
    { Sorted(TopNames),
      [x \in 1..Cardinality(TopNames) |->
          Sorted(TopNames)[Cardinality(TopNames) + 1 - x]] }

\* The walk of a root whose directories can all be listed.
DefaultWalk == Walk(Sorted(TopNames), {})

\* `requests` is a set of <<name, is_file>> pairs.
EnableAll(hist, requests, denySets) ==
    \E rq \in requests, deny \in denySets :
        /\ Call("enable_all", 0, rq[1], rq[2],
                enable_all(fs, rq[1], rq[2], disabled, deny))
        /\ History(hist, "enable_all", 0, rq[1], rq[2],
                   Registry(disabled), NoWalk, deny)

DisableAll(hist, requests, denySets) ==
    \E rq \in requests, deny \in denySets,
       order \in ReadDirOrders(Len(disabled)) :
        /\ Call("disable_all", 0, rq[1], rq[2],
                disable_all(fs, rq[1], rq[2], order, deny))
        /\ History(hist, "disable_all", 0, rq[1], rq[2], order, NoWalk, deny)

ApplyToInstance(hist, walks, denySets) ==
    \E i \in 1..Len(disabled), deny \in denySets, walk \in walks,
       order \in ReadDirOrders(Len(disabled)) :
        /\ Call("apply_to_instance", i, "", FALSE,
                apply_to_instance(fs, cfg, i, order, walk, deny))
        /\ History(hist, "apply_to_instance", i, "", FALSE, order, walk, deny)

\* Mutant: the scan makes the shared subdirectory of "saves" on its way.
GetSyncStateCreating ==
    /\ Call("get_sync_state", 0, "", FALSE,
            [fs |-> create_dir_all(fs, <<Store, "saves">>, {}).fs,
             ret |-> get_sync_state(fs, cfg, disabled), muts |-> 0])
    /\ UNCHANGED <<run, inj>>

GetSyncState ==
    /\ Call("get_sync_state", 0, "", FALSE,
            [fs |-> fs, ret |-> get_sync_state(fs, cfg, disabled), muts |-> 0])
    /\ UNCHANGED <<run, inj>>

\* Time passes.
Tick ==
    /\ now < MaxTime
    /\ now' = now + 1
    /\ UNCHANGED <<fs, cfg, disabled, stored, op, pre, run, inj, procs, page>>

NoOp == [name |-> "none", i |-> 0, target |-> "", is_file |-> FALSE,
         ret |-> "", muts |-> 0, rep |-> FALSE]

SyncTargets(files, folders) == [files |-> files, folders |-> folders]

\* A persisted value: a JSON number, a JSON object holding the two sets, or
\* anything else.
Stored(kind, n, targets) == [kind |-> kind, n |-> n, targets |-> targets]

NoStored == Stored("object", 0, SyncTargets({}, {}))

----------------------------------------------------------------------------
(* The syncing page: its loading and pending sets, the task that awaits    *)
(* the answer to its last GetSyncState request, and the messages it has    *)
(* sent.  Messages are numbered in the order the page sends them.          *)

MaxClicks == 4

PageTargets == { "saves", "config" }

\* What the user may have typed into the custom target input.
PageInputs == PageTargets \cup { BadName }

\* A page that does not exist.
NoPage ==
    [ loading |-> {}, pending |-> {}, shown |-> 0, task |-> 0,
      requests |-> {}, seq |-> 0, toggled |-> [t \in PageTargets |-> 0],
      entered |-> [t \in PageTargets |-> 0], clicks |-> 0 ]

\* update_sync_state: a GetSyncState request is sent and the task that
\* awaits its answer replaces the task the page held, which is cancelled
\* with it.  The request is the message numbered seq + 1.
update_sync_state(p) ==
    [p EXCEPT !.seq = p.seq + 1,
              !.task = p.seq + 1,
              !.requests = p.requests \cup { p.seq + 1 }]

\* SyncingPage::new: empty sets, no sync state, and the first request.
NewPage == update_sync_state(NoPage)

\* The click handler of a checkbox or of a custom button: SetSyncing is
\* sent as the message numbered seq + 1, the target joins loading, and if
\* nothing is pending it becomes pending and a request is sent.
on_click(p, name) ==
    With([p EXCEPT !.seq = p.seq + 1,
                   !.toggled[name] = p.seq + 1,
                   !.entered[name] =
                       IF name \in p.loading THEN @ ELSE p.seq + 1,
                   !.loading = p.loading \cup { name },
                   !.clicks = p.clicks + 1],
         LAMBDA sent :
            IF sent.pending = {}
            THEN update_sync_state([sent EXCEPT !.pending = { name }])
            ELSE sent)

\* The task's continuation without the refresh for targets still loading:
\* the pending targets leave loading and the state is shown.
on_response_once(p, id) ==
    [p EXCEPT !.loading = p.loading \ p.pending,
              !.pending = {},
              !.shown = id,
              !.task = 0,
              !.requests = p.requests \ { id }]

\* The task's continuation when the answer to request id arrives: the
\* pending targets leave loading, pending is emptied, the state is shown,
\* and if a target is still loading all of loading becomes pending and a
\* new request is sent.
on_response(p, id) ==
    With([p EXCEPT !.loading = p.loading \ p.pending,
                   !.pending = {},
                   !.shown = id,
                   !.task = 0,
                   !.requests = p.requests \ { id }],
         LAMBDA got :
            IF got.loading # {}
            THEN update_sync_state([got EXCEPT !.pending = got.loading])
            ELSE got)

\* A click on the checkbox of a target; the page renders checkboxes only
\* once it holds a sync state.
ClickCheckbox ==
    /\ page.shown # 0
    /\ page.clicks < MaxClicks
    /\ \E name \in PageTargets : page' = on_click(page, name)
    /\ UNCHANGED <<fs, cfg, disabled, now, stored, op, pre, run, inj, procs>>

\* A click on "Add custom file" or "Add custom folder": nothing happens
\* unless the input is a safe path.
ClickCustom ==
    /\ page.shown # 0
    /\ page.clicks < MaxClicks
    /\ \E input \in PageInputs :
          page' = IF SafePathNew(input)
                  THEN on_click(page, input)
                  ELSE [page EXCEPT !.clicks = page.clicks + 1]
    /\ UNCHANGED <<fs, cfg, disabled, now, stored, op, pre, run, inj, procs>>

\* The backend answers a request.  The answer reaches the task that awaits
\* it; the answer to a request whose task was cancelled is dropped.
Respond ==
    /\ \E id \in page.requests :
          page' = IF page.task = id
                  THEN on_response(page, id)
                  ELSE [page EXCEPT !.requests = page.requests \ { id }]
    /\ UNCHANGED <<fs, cfg, disabled, now, stored, op, pre, run, inj, procs>>

InitPage ==
    /\ disabled = [i \in 1..NumInst |-> FALSE]
    /\ cfg = SyncTargets({}, {})
    /\ fs = [p \in Locs(NumInst) |-> None]
    /\ now = 2
    /\ stored = NoStored
    /\ op = NoOp
    /\ pre = fs
    /\ run = NoRun
    /\ inj = NoInjected
    /\ procs = <<>>
    /\ page = NewPage

NextPage ==
    \/ ClickCheckbox
    \/ ClickCustom
    \/ Respond

SpecPage == InitPage /\ [][NextPage]_vars

\* The backend answers every request and the executor runs the task that
\* awaits the answer.
SpecPageFair == SpecPage /\ WF_vars(Respond)

----------------------------------------------------------------------------
(* Folder linking: every kind of entry at the folder target "saves".       *)

LinkEntries ==
    { None, Dir(1), Link(<<Store, "saves">>), Link(<<Store, "config">>),
      Link(ExtDir), Link(ExtGone) }

LinkConfigs ==
    { SyncTargets({}, {}),
      SyncTargets({BadName}, {"saves", "config", BadName}) }

LinkRequests == { <<"saves", FALSE>>, <<BadName, FALSE>>, <<BadName, TRUE>> }

\* The flags of n instances: syncing disabled for none, or for the first.
FlagChoices(n) ==
    { [i \in 1..n |-> FALSE], [i \in 1..n |-> i = 1] }

InitLink ==
    /\ disabled \in FlagChoices(NumInst)
    /\ cfg \in LinkConfigs
    /\ \E e \in [1..NumInst -> LinkEntries], s \in {None, Dir(1)} :
          fs = [p \in Locs(NumInst) |->
                   IF p[2] = "saves"
                   THEN IF p[1] = Store THEN s ELSE e[p[1]]
                   ELSE None]
    /\ now = 2
    /\ stored = NoStored
    /\ op = NoOp
    /\ pre = fs
    /\ run = NoRun
    /\ inj = NoInjected
    /\ procs = <<>>
    /\ page = NoPage

Next ==
    \/ EnableAll({}, LinkRequests, {{}})
    \/ DisableAll({}, LinkRequests, {{}})
    \/ ApplyToInstance({}, {DefaultWalk}, {{}})
    \/ GetSyncState

Spec == InitLink /\ [][Next]_vars

----------------------------------------------------------------------------
(* The Options Merger on its own: NumOptInst instances, each with or       *)
(* without an options.txt, and one call of create_combined_options_txt.    *)

CreateCombinedOptionsTxt ==
    \E i \in 1..Len(disabled), order \in ReadDirOrders(Len(disabled)) :
        /\ Call("create_combined_options_txt", i, OptionsName, TRUE,
                [fs |-> fs, muts |-> 0,
                 ret |-> create_combined_options_txt(
                           fs, <<Store, FallbackName>>, <<i, OptionsName>>, order)])
        /\ UNCHANGED <<run, inj>>

OptA == << <<"a", ":", "1">> >>
OptB == << <<"a", ":", "2">>, <<"b", ":", "1">> >>
OptC == << <<"a", ":", "3">>, <<"resourcePacks", ":", "x">> >>

\* A baseline with a padded line, a value that holds a colon, a line
\* without a colon and a key given twice.
OptFallback ==
    << <<" ", "c", ":", "0", ":", "9", " ">>, <<"junk">>, <<"a", ":", "0">>,
       <<"incompatibleResourcePacks", ":", "f">>, <<"c", ":", "1">> >>

\* No file, or one of the three files at an early, middle or late time;
\* OptA and OptC can tie at either end.
OptionEntries ==
    { None, File(OptA, 1), File(OptA, 3), File(OptB, 2), File(OptC, 1),
      File(OptC, 3) }

InitOptions ==
    /\ disabled = [i \in 1..NumOptInst |-> FALSE]
    /\ cfg = SyncTargets({OptionsName}, {})
    /\ \E e \in [1..NumOptInst -> OptionEntries],
          b \in {None, File(OptFallback, 1)} :
          fs = [p \in Locs(NumOptInst) |->
                   IF p[1] = Store
                   THEN IF p[2] = FallbackName THEN b ELSE None
                   ELSE IF p[2] = OptionsName THEN e[p[1]] ELSE None]
    /\ now = 3
    /\ stored = NoStored
    /\ op = NoOp
    /\ pre = fs
    /\ run = NoRun
    /\ inj = NoInjected
    /\ procs = <<>>
    /\ page = NoPage

NextOptions == CreateCombinedOptionsTxt

SpecOptions == InitOptions /\ [][NextOptions]_vars

----------------------------------------------------------------------------
(* File targets: instances with or without an options.txt, a servers.dat   *)
(* and a real saves directory, reconciled again and again while time       *)
(* passes.                                                                  *)

OptD == << <<"a", ":", "4">>, <<"resourcePacks", ":", "y">> >>

ServersOld == << <<"s", "1">> >>
ServersNew == << <<"s", "2">> >>

FileConfigs ==
    { SyncTargets({OptionsName, "servers.dat"}, {"saves"}),
      SyncTargets({"servers.dat"}, {"servers.dat", "saves"}) }

InitFiles ==
    /\ disabled = [i \in 1..NumInst |-> FALSE]
    /\ cfg \in FileConfigs
    /\ \E o \in [1..NumInst -> {None, File(OptA, 1), File(OptC, 2), File(OptD, 1)}],
          d \in [1..NumInst -> {None, File(ServersOld, 1), File(ServersNew, 2)}],
          v \in [1..NumInst -> {None, Dir(1)}] :
          fs = [p \in Locs(NumInst) |->
                   IF p[1] = Store THEN None
                   ELSE IF p[2] = OptionsName THEN o[p[1]]
                   ELSE IF p[2] = "servers.dat" THEN d[p[1]]
                   ELSE IF p[2] = "saves" THEN v[p[1]]
                   ELSE None]
    /\ now = 2
    /\ stored = NoStored
    /\ op = NoOp
    /\ pre = fs
    /\ run = NoRun
    /\ inj = NoInjected
    /\ procs = <<>>
    /\ page = NoPage

NextFiles ==
    \/ ApplyToInstance({}, {DefaultWalk}, {{}})
    \/ Tick

SpecFiles == InitFiles /\ [][NextFiles]_vars

----------------------------------------------------------------------------
(* Loading the configuration: try_deserialize_sync_targets                 *)

\* The number of LegacySyncTarget variants; their discriminants are
\* 0..LegacyBits - 1, the bit positions of the legacy bitset.
LegacyBits == 15

RECURSIVE Pow2(_)
Pow2(b) == IF b = 0 THEN 1 ELSE 2 * Pow2(b - 1)

\* Mutant: the variants are numbered in declaration order (Hotbars fourth).
get_new_target_by_position(bit) ==
    << <<"options.txt", TRUE>>, <<"servers.dat", TRUE>>,
       <<"command_history.txt", TRUE>>, <<"hotbar.nbt", TRUE>>,
       <<"saves", FALSE>>, <<"config", FALSE>>, <<"screenshots", FALSE>>,
       <<"resourcepacks", FALSE>>, <<"shaderpacks", FALSE>>,
       <<"flashback", FALSE>>, <<"Distant_Horizons_server_data", FALSE>>,
       <<".voxy", FALSE>>, <<"xaero", FALSE>>, <<".bobby", FALSE>>,
       <<"schematics", FALSE>> >>[bit + 1]

\* LegacySyncTarget::get_new_target of the variant with discriminant `bit`.
get_new_target(bit) ==
    CASE bit = 0 -> <<"options.txt", TRUE>>
      [] bit = 1 -> <<"servers.dat", TRUE>>
      [] bit = 2 -> <<"command_history.txt", TRUE>>
      [] bit = 13 -> <<"hotbar.nbt", TRUE>>
      [] bit = 3 -> <<"saves", FALSE>>
      [] bit = 4 -> <<"config", FALSE>>
      [] bit = 5 -> <<"screenshots", FALSE>>
      [] bit = 6 -> <<"resourcepacks", FALSE>>
      [] bit = 7 -> <<"shaderpacks", FALSE>>
      [] bit = 8 -> <<"flashback", FALSE>>
      [] bit = 9 -> <<"Distant_Horizons_server_data", FALSE>>
      [] bit = 10 -> <<".voxy", FALSE>>
      [] bit = 11 -> <<"xaero", FALSE>>
      [] bit = 12 -> <<".bobby", FALSE>>
      [] bit = 14 -> <<"schematics", FALSE>>

\* The loop over the members of the EnumSet, lowest bit first.
RECURSIVE decode_legacy(_, _, _)
decode_legacy(n, bit, targets) ==
    IF bit = LegacyBits THEN targets
    ELSE IF (n \div Pow2(bit)) % 2 = 1
         THEN LET t == get_new_target(bit)
              IN decode_legacy(n, bit + 1,
                     IF t[2]
                     THEN SyncTargets(targets.files \cup {t[1]}, targets.folders)
                     ELSE SyncTargets(targets.files, targets.folders \cup {t[1]}))
    ELSE decode_legacy(n, bit + 1, targets)

try_deserialize_sync_targets(value) ==
    IF value.kind = "number"
    THEN IF value.n < 0 THEN SyncTargets({}, {})
         ELSE decode_legacy(value.n, 0, SyncTargets({}, {}))
    ELSE IF value.kind = "object" THEN value.targets
    ELSE SyncTargets({}, {})

Load ==
    /\ op.name = "none"
    /\ cfg' = try_deserialize_sync_targets(stored)
    /\ op' = [NoOp EXCEPT !.name = "load"]
    /\ UNCHANGED <<fs, disabled, now, stored, pre, run, inj, procs, page>>

InitLegacy ==
    /\ stored \in
          {Stored("number", n, SyncTargets({}, {})) :
              n \in (0..(Pow2(LegacyBits) - 1)) \cup {-1}}
          \cup {Stored("object", 0, t) : t \in LinkConfigs}
          \cup {Stored("string", 0, SyncTargets({}, {}))}
    /\ cfg = SyncTargets({}, {})
    /\ disabled = <<>>
    /\ fs = <<>>
    /\ now = 0
    /\ op = NoOp
    /\ pre = fs
    /\ run = NoRun
    /\ inj = NoInjected
    /\ procs = <<>>
    /\ page = NoPage

NextLegacy == Load

SpecLegacy == InitLegacy /\ [][NextLegacy]_vars

----------------------------------------------------------------------------
(* One file target, servers.dat: every instance holds no copy, a copy      *)
(* written at time 1 or 2, or a directory of that name.                    *)

LatestEntries ==
    { None, File(ServersOld, 1), File(ServersNew, 1), File(ServersNew, 2),
      Dir(2) }

InitLatest ==
    /\ disabled = [i \in 1..NumFileInst |-> FALSE]
    /\ cfg = SyncTargets({"servers.dat"}, {})
    /\ \E d \in [1..NumFileInst -> LatestEntries] :
          fs = [p \in Locs(NumFileInst) |->
                   IF p[1] # Store /\ p[2] = "servers.dat" THEN d[p[1]]
                   ELSE None]
    /\ now = 2
    /\ stored = NoStored
    /\ op = NoOp
    /\ pre = fs
    /\ run = NoRun
    /\ inj = NoInjected
    /\ procs = <<>>
    /\ page = NoPage

NextLatest ==
    \/ ApplyToInstance({"inj"}, {DefaultWalk}, {{}})
    \/ Tick

SpecLatest == InitLatest /\ [][NextLatest]_vars

----------------------------------------------------------------------------
(* Concurrent calls on one folder target: there is no lock, so the         *)
(* filesystem calls of enable_all, disable_all and apply_to_instance       *)
(* interleave. Every action below is one filesystem call of one running    *)
(* call (`procs` holds the running calls and their local variables); `pre` *)
(* keeps the filesystem the calls started from.                            *)

NumProcs == 2

RaceName == "saves"

\* A running call: its position, the paths it still has to visit, the
\* `paths` vector of enable_all, the copy find_latest selected, its result.
Proc(call, i, pc, todo) ==
    [call |-> call, i |-> i, pc |-> pc, todo |-> todo, kept |-> <<>>,
     src |-> NoPath, ret |-> ""]

Returned(rec, ret) ==
    [Proc(rec.call, rec.i, "done", <<>>) EXCEPT !.ret = ret]

At(x, call, pc) == procs[x].call = call /\ procs[x].pc = pc

Step(x, rec, f) ==
    /\ procs' = [procs EXCEPT ![x] = rec]
    /\ fs' = f
    /\ UNCHANGED <<cfg, disabled, now, stored, op, pre, run, inj, page>>

\* The loop over `todo` goes on, or the call moves to `after`.
Advance(rec, after) ==
    IF Tail(rec.todo) = <<>> THEN after
    ELSE [rec EXCEPT !.todo = Tail(rec.todo)]

\* enable_all: paths.retain(|path| !is_targeting(target_dir, path)), one
\* read_link per path.
EnableRetain ==
    \E x \in DOMAIN procs :
        /\ At(x, "enable_all", "retain")
        /\ LET rec == procs[x]
               path == Head(rec.todo)
               kept == IF is_targeting(fs, <<Store, RaceName>>, path)
                       THEN rec.kept ELSE Append(rec.kept, path)
               r == [rec EXCEPT !.kept = kept]
           IN Step(x, Advance(r, [r EXCEPT !.pc = IF kept = <<>> THEN "create"
                                                  ELSE "exists",
                                           !.todo = kept]), fs)

\* enable_all: if path.exists() { return Ok(false) }
EnableExists ==
    \E x \in DOMAIN procs :
        /\ At(x, "enable_all", "exists")
        /\ LET rec == procs[x]
           IN Step(x, IF Exists(fs, Head(rec.todo)) THEN Returned(rec, "false")
                      ELSE Advance(rec, [rec EXCEPT !.pc = "create",
                                                    !.todo = <<>>]), fs)

\* enable_all: create_dir_all(&target_dir)?
EnableCreate ==
    \E x \in DOMAIN procs :
        /\ At(x, "enable_all", "create")
        /\ LET rec == procs[x]
               r == create_dir_all(fs, <<Store, RaceName>>, {})
           IN Step(x, IF ~r.ok THEN Returned(rec, "err")
                      ELSE IF rec.kept = <<>> THEN Returned(rec, "true")
                      ELSE [rec EXCEPT !.pc = "link", !.todo = rec.kept], r.fs)

\* enable_all: create_dir_all(parent), which finds the instance root in
\* place, and link_dir(&target_dir, path)?
EnableLink ==
    \E x \in DOMAIN procs :
        /\ At(x, "enable_all", "link")
        /\ LET rec == procs[x]
               r0 == create_parent(fs, Head(rec.todo), {})
               r == link_dir(r0.fs, <<Store, RaceName>>, Head(rec.todo), {})
           IN Step(x, IF ~r.ok THEN Returned(rec, "err")
                      ELSE Advance(rec, Returned(rec, "true")), r.fs)

\* disable_all: read_dir(instances_dir) and the paths built from it.
DisableReadDir ==
    \E x \in DOMAIN procs, order \in ReadDirOrders(Len(disabled)) :
        /\ At(x, "disable_all", "read_dir")
        /\ Step(x, [procs[x] EXCEPT
                       !.pc = "read_link",
                       !.todo = [y \in DOMAIN order |-> <<order[y], RaceName>>]],
                fs)

\* unlink_dir_if_targeting: read_link(link) and the comparison.
DisableReadLink ==
    \E x \in DOMAIN procs :
        /\ At(x, "disable_all", "read_link")
        /\ LET rec == procs[x]
           IN Step(x, IF is_targeting(fs, <<Store, RaceName>>, Head(rec.todo))
                      THEN [rec EXCEPT !.pc = "remove"]
                      ELSE Advance(rec, Returned(rec, "ok")), fs)

\* unlink_dir_if_targeting: remove_file(link)?
DisableRemove ==
    \E x \in DOMAIN procs :
        /\ At(x, "disable_all", "remove")
        /\ LET rec == procs[x]
               r == remove_file(fs, Head(rec.todo), {})
           IN Step(x, IF ~r.ok THEN Returned(rec, "err")
                      ELSE Advance([rec EXCEPT !.pc = "read_link"],
                                   Returned(rec, "ok")), r.fs)

\* The file targets apply_to_instance copies, as paths of the instance.
FilePaths(i) ==
    LET names == SelectSeq(Sorted(cfg.files),
                           LAMBDA n : n # OptionsName /\ SafePathNew(n))
    IN [y \in DOMAIN names |-> <<i, names[y]>>]

\* The folder targets apply_to_instance links, as paths of the instance.
FolderPaths(i) ==
    LET names == SelectSeq(Sorted(cfg.folders), SafePathNew)
    IN [y \in DOMAIN names |-> <<i, names[y]>>]

ToFolders(rec) ==
    IF FolderPaths(rec.i) = <<>> THEN Returned(rec, "ok")
    ELSE [rec EXCEPT !.pc = "f_exists", !.todo = FolderPaths(rec.i)]

ToFiles(rec) ==
    IF FilePaths(rec.i) = <<>> THEN ToFolders(rec)
    ELSE [rec EXCEPT !.pc = "find_latest", !.todo = FilePaths(rec.i)]

\* apply_to_instance: the walk lists the instance root; the type of an
\* entry is the one the listing saw. The symlinks it yields are kept; the
\* directory branch changes nothing, and no directory of an instance has a
\* tracked entry below it here.
ApplyWalk ==
    \E x \in DOMAIN procs, order \in WalkOrders :
        /\ At(x, "apply_to_instance", "walk")
        /\ LET rec == procs[x]
               names == SelectSeq(order,
                            LAMBDA n : fs[<<rec.i, n>>].k = "link")
               links == [y \in DOMAIN names |-> <<rec.i, names[y]>>]
           IN Step(x, IF links = <<>> THEN ToFiles(rec)
                      ELSE [rec EXCEPT !.pc = "w_read_link", !.todo = links],
                   fs)

\* The symlink branch: folders.contains(relative), read_link(entry.path())
\* and target.starts_with(synced_dir).
ApplyReadLink ==
    \E x \in DOMAIN procs :
        /\ At(x, "apply_to_instance", "w_read_link")
        /\ LET rec == procs[x]
               path == Head(rec.todo)
           IN Step(x, IF /\ path[2] \notin cfg.folders
                         /\ Get(fs, path).k = "link"
                         /\ Get(fs, path).to[1] = Store
                      THEN [rec EXCEPT !.pc = "w_remove"]
                      ELSE Advance(rec, ToFiles(rec)), fs)

\* The symlink branch: _ = remove_file(entry.path())
ApplyRemove ==
    \E x \in DOMAIN procs :
        /\ At(x, "apply_to_instance", "w_remove")
        /\ LET rec == procs[x]
           IN Step(x, Advance([rec EXCEPT !.pc = "w_read_link"], ToFiles(rec)),
                   remove_file(fs, Head(rec.todo), {}).fs)

\* The file pass: find_latest (its reads, which change nothing, taken
\* together) and latest != target.
ApplyFindLatest ==
    \E x \in DOMAIN procs, order \in ReadDirOrders(Len(disabled)) :
        /\ At(x, "apply_to_instance", "find_latest")
        /\ LET rec == procs[x]
               latest == find_latest(fs, Head(rec.todo)[2], order)
           IN Step(x, IF latest # NoPath /\ latest # Head(rec.todo)
                      THEN [rec EXCEPT !.pc = "copy", !.src = latest]
                      ELSE Advance(rec, ToFolders(rec)), fs)

\* The file pass: create_dir_all(parent), which finds the instance root in
\* place, and _ = std::fs::copy(latest, target)
ApplyCopy ==
    \E x \in DOMAIN procs :
        /\ At(x, "apply_to_instance", "copy")
        /\ LET rec == procs[x]
               r == [rec EXCEPT !.pc = "find_latest", !.src = NoPath]
           IN Step(x, Advance(r, ToFolders(r)),
                   copy(fs, rec.src, Head(rec.todo), {}).fs)

\* The folder pass: if !path.exists()
ApplyExists ==
    \E x \in DOMAIN procs :
        /\ At(x, "apply_to_instance", "f_exists")
        /\ LET rec == procs[x]
           IN Step(x, IF ~Exists(fs, Head(rec.todo))
                      THEN [rec EXCEPT !.pc = "f_create"]
                      ELSE Advance(rec, Returned(rec, "ok")), fs)

\* The folder pass: _ = create_dir_all(&target_dir)
ApplyCreate ==
    \E x \in DOMAIN procs :
        /\ At(x, "apply_to_instance", "f_create")
        /\ Step(x, [procs[x] EXCEPT !.pc = "f_link"],
                create_dir_all(fs, <<Store, Head(procs[x].todo)[2]>>, {}).fs)

\* The folder pass: create_dir_all(parent), which finds the instance root in
\* place, and _ = link_dir(&target_dir, &path)
ApplyLink ==
    \E x \in DOMAIN procs :
        /\ At(x, "apply_to_instance", "f_link")
        /\ LET rec == procs[x]
               path == Head(rec.todo)
               r0 == create_parent(fs, path, {})
           IN Step(x, Advance([rec EXCEPT !.pc = "f_exists"],
                              Returned(rec, "ok")),
                   link_dir(r0.fs, <<Store, path[2]>>, path, {}).fs)

\* The calls that may run: the two bulk calls and the reconciler of every
\* instance, each at its first filesystem call.
RaceCalls ==
    { Proc("enable_all", 0, "retain",
           EligiblePaths([i \in 1..NumInst |-> FALSE], RaceName)),
      Proc("disable_all", 0, "read_dir", <<>>) }
    \cup { Proc("apply_to_instance", i, "walk", <<>>) : i \in 1..NumInst }

RaceEntries ==
    { None, Dir(1), File(ServersOld, 1), Link(<<Store, RaceName>>),
      Link(<<Store, "config">>), Link(ExtGone) }

\* The target switched on, switched off, and switched on with a file target
\* of the same name.
RaceConfigs ==
    { SyncTargets({}, {RaceName}), SyncTargets({}, {}),
      SyncTargets({RaceName}, {RaceName}) }

InitRace ==
    /\ disabled = [i \in 1..NumInst |-> FALSE]
    /\ cfg \in RaceConfigs
    /\ \E e \in [1..NumInst -> RaceEntries], s \in {None, Dir(1)} :
          fs = [p \in Locs(NumInst) |->
                   IF p[2] = RaceName
                   THEN IF p[1] = Store THEN s ELSE e[p[1]]
                   ELSE None]
    /\ now = 2
    /\ stored = NoStored
    /\ op = NoOp
    /\ pre = fs
    /\ run = NoRun
    /\ inj = NoInjected
    /\ procs \in [1..NumProcs -> RaceCalls]
    /\ page = NoPage

NextRace ==
    \/ EnableRetain \/ EnableExists \/ EnableCreate \/ EnableLink
    \/ DisableReadDir \/ DisableReadLink \/ DisableRemove
    \/ ApplyWalk \/ ApplyReadLink \/ ApplyRemove
    \/ ApplyFindLatest \/ ApplyCopy
    \/ ApplyExists \/ ApplyCreate \/ ApplyLink

SpecRace == InitRace /\ [][NextRace]_vars

----------------------------------------------------------------------------
(* get_sync_state running while another call changes the target: the scan  *)
(* takes no lock either. Its reads of the instance paths of RaceName are    *)
(* one action each; the paths of every other target are touched by no      *)
(* running call, so the reads of such a target are taken together.         *)

\* The targets in the order get_sync_state visits them, as
\* <<name, is_file, enabled>>: the file targets, then the chain of the
\* configured folders and the default folders that are not configured.
ScanTargets ==
    LET files == Sorted(cfg.files)
        enabled_seq == Sorted(cfg.folders)
        disabled_seq == SelectSeq(DEFAULT_FOLDERS, LAMBDA d : d \notin cfg.folders)
    IN [x \in DOMAIN files |-> <<files[x], TRUE, TRUE>>]
       \o [x \in DOMAIN enabled_seq |-> <<enabled_seq[x], FALSE, TRUE>>]
       \o [x \in DOMAIN disabled_seq |-> <<disabled_seq[x], FALSE, FALSE>>]

\* dot_minecraft_paths.len()
ScanTotal == Len(EligiblePaths(disabled, RaceName))

\* The scan before a target: a target whose reads are taken together is
\* entered at once; the scan stops before the instance loop of RaceName, or
\* returns the SyncState when no target is left.
RECURSIVE ScanVisit(_, _)
ScanVisit(rec, f) ==
    IF rec.targets = <<>>
    THEN Returned(rec, [targets |-> rec.entries, total_count |-> ScanTotal])
    ELSE LET t == Head(rec.targets)
         IN IF t[1] = RaceName /\ ScanTotal > 0
            THEN [rec EXCEPT !.pc = IF t[2] THEN "s_is_dir" ELSE "s_read_link",
                             !.todo = EligiblePaths(disabled, t[1]),
                             !.sync_count = 0,
                             !.cannot_sync_count = 0]
            ELSE ScanVisit(
                     [rec EXCEPT
                         !.targets = Tail(rec.targets),
                         !.entries =
                             IF t[2]
                             THEN state_files(f, <<t[1]>>, disabled, rec.entries)
                             ELSE state_folders(f, << <<t[1], t[3]>> >>,
                                                disabled, rec.entries)], f)

\* entries.insert(target, SyncTargetState { .. }) after the instance loop,
\* and on to the next target.
ScanInsert(rec, f) ==
    LET t == Head(rec.targets)
        st == IF t[2]
              THEN SyncTargetState(TRUE, TRUE,
                       IF ScanTotal >= rec.cannot_sync_count
                       THEN ScanTotal - rec.cannot_sync_count ELSE 0,
                       rec.cannot_sync_count)
              ELSE SyncTargetState(t[3], FALSE, rec.sync_count,
                                   rec.cannot_sync_count)
    IN ScanVisit([rec EXCEPT !.targets = Tail(rec.targets),
                             !.entries = Insert(rec.entries, t[1], st)], f)

\* get_sync_state about to visit its first target.
ScanCall(f) ==
    ScanVisit(Proc("get_sync_state", 0, "start", <<>>)
              @@ [targets |-> ScanTargets, entries |-> <<>>,
                  sync_count |-> 0, cannot_sync_count |-> 0], f)

\* File target: if target.is_dir() { cannot_sync_count += 1 }
ScanIsDir ==
    \E x \in DOMAIN procs :
        /\ At(x, "get_sync_state", "s_is_dir")
        /\ LET rec == procs[x]
               r == [rec EXCEPT !.cannot_sync_count =
                        @ + IF IsDir(fs, Head(rec.todo)) THEN 1 ELSE 0]
           IN Step(x, Advance(r, ScanInsert(r, fs)), fs)

\* Mutant: the exists test is made also after a link was counted.
ScanReadLinkThenExists ==
    \E x \in DOMAIN procs :
        /\ At(x, "get_sync_state", "s_read_link")
        /\ LET rec == procs[x]
           IN Step(x, [rec EXCEPT
                          !.pc = "s_exists",
                          !.sync_count =
                              @ + IF is_targeting(fs, <<Store, RaceName>>,
                                                  Head(rec.todo))
                                  THEN 1 ELSE 0], fs)

\* Folder target: if is_targeting(&target_dir, &path) { sync_count += 1 }
ScanReadLink ==
    \E x \in DOMAIN procs :
        /\ At(x, "get_sync_state", "s_read_link")
        /\ LET rec == procs[x]
               r == [rec EXCEPT !.sync_count = @ + 1]
           IN Step(x, IF is_targeting(fs, <<Store, RaceName>>, Head(rec.todo))
                      THEN Advance(r, ScanInsert(r, fs))
                      ELSE [rec EXCEPT !.pc = "s_exists"], fs)

\* Folder target: else if path.exists() { cannot_sync_count += 1 }
ScanExists ==
    \E x \in DOMAIN procs :
        /\ At(x, "get_sync_state", "s_exists")
        /\ LET rec == procs[x]
               r == [rec EXCEPT !.pc = "s_read_link",
                                !.cannot_sync_count =
                                    @ + IF Exists(fs, Head(rec.todo))
                                        THEN 1 ELSE 0]
           IN Step(x, Advance(r, ScanInsert(r, fs)), fs)

\* The configurations of the race, one with a target that is not a safe
\* path, and one whose file target has the name of a default folder.
ScanConfigs ==
    RaceConfigs \cup { SyncTargets({BadName}, {RaceName, BadName}),
                       SyncTargets({RaceName, "servers.dat"}, {}) }

InitScan ==
    /\ disabled = [i \in 1..NumInst |-> FALSE]
    /\ cfg \in ScanConfigs
    /\ \E e \in [1..NumInst -> RaceEntries], s \in {None, Dir(1)} :
          fs = [p \in Locs(NumInst) |->
                   IF p[2] = RaceName
                   THEN IF p[1] = Store THEN s ELSE e[p[1]]
                   ELSE None]
    /\ now = 2
    /\ stored = NoStored
    /\ op = NoOp
    /\ pre = fs
    /\ run = NoRun
    /\ inj = NoInjected
    /\ \E rival \in RaceCalls : procs = <<ScanCall(fs), rival>>
    /\ page = NoPage

NextScan ==
    \/ NextRace
    \/ ScanIsDir \/ ScanReadLink \/ ScanExists

SpecScan == InitScan /\ [][NextScan]_vars

----------------------------------------------------------------------------
(* The cleanup pass: a flat target ("saves"), a nested one ("config/sub")  *)
(* and its parent ("config"), a configuration that changes between calls,  *)
(* and an instance directory that cannot be listed.                        *)

CleanupConfigs ==
    { SyncTargets({}, {}), SyncTargets({}, {"saves"}),
      SyncTargets({}, {"config/sub"}), SyncTargets({}, {"config"}) }

\* The configuration is replaced (a target is switched on or off).
SetTargets(configs) ==
    /\ cfg' \in configs \ {cfg}
    /\ op' = [NoOp EXCEPT !.name = "set_targets"]
    /\ UNCHANGED <<fs, disabled, now, stored, pre, run, inj, procs, page>>

\* Every directory can be listed, or the "config" directory of no instance
\* can.
CleanupWalks ==
    { Walk(o, u) :
        o \in WalkOrders,
        u \in { {}, {<<i, "config">> : i \in 1..NumInst} } }

\* An instance holds nothing or a link to the shared "saves"; the instances
\* hold nothing or a real "config" directory; the store holds "saves" and
\* may hold "config".
InitCleanup ==
    /\ disabled = [i \in 1..NumInst |-> FALSE]
    /\ cfg \in CleanupConfigs
    /\ \E v \in [1..NumInst -> {None, Link(<<Store, "saves">>)}],
          c \in {None, Dir(1)},
          s \in {None, Dir(1)} :
          fs = [p \in Locs(NumInst) |->
                   IF p[1] = Store
                   THEN IF p[2] = "saves" THEN Dir(1)
                        ELSE IF p[2] = "config" THEN s ELSE None
                   ELSE IF p[2] = "saves" THEN v[p[1]]
                   ELSE IF p[2] = "config" THEN c
                   ELSE None]
    /\ now = 2
    /\ stored = NoStored
    /\ op = NoOp
    /\ pre = fs
    /\ run = NoRun
    /\ inj = NoInjected
    /\ procs = <<>>
    /\ page = NoPage

NextCleanup ==
    \/ SetTargets(CleanupConfigs)
    \/ ApplyToInstance({"inj"}, CleanupWalks, {{}})

SpecCleanup == InitCleanup /\ [][NextCleanup]_vars

----------------------------------------------------------------------------
(* Bulk enable / disable of "saves" with directories that refuse a change, *)
(* and the history of repeated calls.                                      *)

BulkEntries == { None, Dir(1), Link(<<Store, "saves">>), Link(ExtGone) }

BulkRequests == { <<"saves", FALSE>> }

\* No failure, or every change in one directory (the store or one instance)
\* fails.
DenySets(n) == {{}} \cup {{d} : d \in 0..n}

InitBulk ==
    /\ disabled \in FlagChoices(NumBulkInst)
    /\ cfg = SyncTargets({}, {"saves"})
    /\ \E e \in [1..NumBulkInst -> BulkEntries], s \in {None, Dir(1)} :
          fs = [p \in Locs(NumBulkInst) |->
                   IF p[2] = "saves"
                   THEN IF p[1] = Store THEN s ELSE e[p[1]]
                   ELSE None]
    /\ now = 2
    /\ stored = NoStored
    /\ op = NoOp
    /\ pre = fs
    /\ run = Run(fs, "")
    /\ inj = NoInjected
    /\ procs = <<>>
    /\ page = NoPage

NextBulk ==
    \/ EnableAll({"run", "inj"}, BulkRequests, DenySets(NumBulkInst))
    \/ DisableAll({"run", "inj"}, BulkRequests, DenySets(NumBulkInst))

SpecBulk == InitBulk /\ [][NextBulk]_vars

----------------------------------------------------------------------------
(* mod linking on its own: one link path per instance, holding every kind  *)
(* of entry, and the three functions called on it.                         *)

LinkPath(i) == <<i, "saves">>

Originals == { <<Store, "saves">>, <<Store, "config">> }

LinkingEntries ==
    { None, Dir(1), File(<<>>, 1), Link(<<Store, "saves">>),
      Link(<<Store, "config">>), Link(ExtDir), Link(ExtGone) }

LinkDir ==
    \E i \in 1..Len(disabled), original \in Originals :
        /\ Call("link_dir", i, original[2], FALSE,
                LET r == link_dir(fs, original, LinkPath(i), {})
                IN [fs |-> r.fs, ret |-> IF r.ok THEN "ok" ELSE "err",
                    muts |-> r.muts])
        /\ UNCHANGED <<run, inj>>

IsTargeting ==
    \E i \in 1..Len(disabled), original \in Originals :
        /\ Call("is_targeting", i, original[2], FALSE,
                [fs |-> fs, muts |-> 0,
                 ret |-> IF is_targeting(fs, original, LinkPath(i))
                         THEN "true" ELSE "false"])
        /\ UNCHANGED <<run, inj>>

UnlinkDirIfTargeting ==
    \E i \in 1..Len(disabled), original \in Originals :
        /\ Call("unlink_dir_if_targeting", i, original[2], FALSE,
                LET r == unlink_dir_if_targeting(fs, original, LinkPath(i), {})
                IN [fs |-> r.fs, ret |-> IF r.ok THEN "ok" ELSE "err",
                    muts |-> r.muts])
        /\ UNCHANGED <<run, inj>>

InitLinking ==
    /\ disabled = [i \in 1..NumInst |-> FALSE]
    /\ cfg = SyncTargets({}, {})
    /\ \E e \in [1..NumInst -> LinkingEntries] :
          fs = [p \in Locs(NumInst) |->
                   IF p[1] = Store
                   THEN IF p[2] \in {"saves", "config"} THEN Dir(1) ELSE None
                   ELSE IF p[2] = "saves" THEN e[p[1]] ELSE None]
    /\ now = 2
    /\ stored = NoStored
    /\ op = NoOp
    /\ pre = fs
    /\ run = NoRun
    /\ inj = NoInjected
    /\ procs = <<>>
    /\ page = NoPage

NextLinking ==
    \/ LinkDir
    \/ IsTargeting
    \/ UnlinkDirIfTargeting

SpecLinking == InitLinking /\ [][NextLinking]_vars

----------------------------------------------------------------------------
(* Claims about bulk enable / disable and the state scan (Spec)            *)

Instances == 1..Len(disabled)

Eligible == {i \in Instances : ~disabled[i]}

FolderCall(name) == op.name = name /\ ~op.is_file /\ SafePathNew(op.target)

\* The entry at the path itself (lstat), before and after the last call.
EntryBefore(i) == Get(pre, <<i, op.target>>)
EntryAfter(i) == Get(fs, <<i, op.target>>)

LinksToShared(e, name) == e.k = "link" /\ e.to = <<Store, name>>

\* C2: when enable_all is called for a valid folder target and some
\* sync-eligible instance has an entry at the target path that is not a link
\* to the shared subdirectory, enable_all returns false and the filesystem is
\* unchanged.
C2_ConflictRefused ==
    (/\ FolderCall("enable_all")
     /\ \E i \in Eligible :
           EntryBefore(i).k # "none" /\ ~LinksToShared(EntryBefore(i), op.target))
    => (op.ret = "false" /\ fs = pre)

\* C3: when enable_all returns true for a valid folder target, every
\* sync-eligible instance has at the target path a link that is_targeting the
\* shared subdirectory, and the shared subdirectory exists.
C3_EnabledLinksAll ==
    (FolderCall("enable_all") /\ op.ret = "true")
    => (/\ \A i \in Eligible :
              is_targeting(fs, <<Store, op.target>>, <<i, op.target>>)
        /\ Get(fs, <<Store, op.target>>).k = "dir")

C3_Witness ==
    /\ FolderCall("enable_all") /\ op.ret = "true"
    /\ Cardinality(Eligible) >= 2
    /\ \E i \in Eligible : EntryBefore(i).k = "none"
    /\ Get(pre, <<Store, op.target>>).k = "none"

\* C4: after disable_all returns success for a valid folder target, no
\* instance (eligible or not) has a link that is_targeting the shared
\* subdirectory, and every instance path that held real content or a link to
\* another target before the call is unchanged.
C4_DisabledUnlinksAll ==
    (FolderCall("disable_all") /\ op.ret = "ok")
    => \A i \in Instances :
          /\ ~is_targeting(fs, <<Store, op.target>>, <<i, op.target>>)
          /\ (EntryBefore(i).k # "none" /\ ~LinksToShared(EntryBefore(i), op.target))
             => EntryAfter(i) = EntryBefore(i)

C4_Witness ==
    /\ FolderCall("disable_all") /\ op.ret = "ok"
    /\ \E i \in Instances :
          disabled[i] /\ LinksToShared(EntryBefore(i), op.target)
    /\ \E i \in Instances :
          \/ EntryBefore(i).k = "dir"
          \/ EntryBefore(i).k = "link" /\ EntryBefore(i).to # <<Store, op.target>>

\* C8: get_sync_state reports, for a valid folder target enabled in the
\* configuration, sync_count = the number K of eligible instances whose entry
\* is a link to the shared subdirectory and cannot_sync_count = the number M
\* of the other eligible instances that have some entry at the path, with
\* enabled = true, is_file = false and total_count = N.
C8_StateAccounting ==
    op.name = "get_sync_state" =>
        \A n \in cfg.folders : SafePathNew(n) =>
            LET K == Cardinality({i \in Eligible :
                         LinksToShared(Get(fs, <<i, n>>), n)})
                M == Cardinality({i \in Eligible :
                         /\ ~LinksToShared(Get(fs, <<i, n>>), n)
                         /\ Get(fs, <<i, n>>).k # "none"})
            IN /\ n \in DOMAIN op.ret.targets
               /\ op.ret.targets[n] = SyncTargetState(TRUE, FALSE, K, M)
               /\ op.ret.total_count = Cardinality(Eligible)

\* The configuration without the targets that are not safe paths.
ValidOnly(sync_targets) ==
    SyncTargets({n \in sync_targets.files : SafePathNew(n)},
                {n \in sync_targets.folders : SafePathNew(n)})

InvalidConfigured == {n \in cfg.files \cup cfg.folders : ~SafePathNew(n)}

\* What C10 says of apply_to_instance, disable_all and get_sync_state: an
\* invalid target changes nothing and every other target is processed.
C10_Others ==
    /\ (op.name = "disable_all" /\ ~SafePathNew(op.target))
       => (op.ret = "ok" /\ fs = pre)
    /\ op.name = "get_sync_state"
       => \A n \in InvalidConfigured :
             /\ n \in DOMAIN op.ret.targets
             /\ op.ret.targets[n].sync_count = 0
             /\ op.ret.targets[n].cannot_sync_count = op.ret.total_count
    /\ op.name = "apply_to_instance"
       => \E order \in ReadDirOrders(Len(disabled)) :
             fs = apply_to_instance(pre, ValidOnly(cfg), op.i, order,
                                    DefaultWalk, {}).fs

\* C10 (as stated): a target that is not a valid SafePath is ignored:
\* apply_to_instance changes nothing for it and processes the other targets,
\* enable_all returns false with the filesystem unchanged, disable_all
\* returns success with the filesystem unchanged, get_sync_state reports it
\* with sync_count = 0 and cannot_sync_count = total_count.
C10_InvalidIgnored ==
    /\ (op.name = "enable_all" /\ ~SafePathNew(op.target))
       => (op.ret = "false" /\ fs = pre)
    /\ C10_Others

\* C10 (amended): as above, but enable_all returns false only for a folder
\* request (is_file = false); for a file request it returns true; the
\* filesystem is unchanged in both cases.
C10_InvalidIgnoredAmended ==
    /\ (op.name = "enable_all" /\ ~SafePathNew(op.target))
       => (op.ret = (IF op.is_file THEN "true" ELSE "false") /\ fs = pre)
    /\ C10_Others

C10_Witness ==
    /\ op.name = "apply_to_instance"
    /\ InvalidConfigured # {}
    /\ op.muts > 0

\* C11: get_sync_state is read-only: the filesystem after the call (every
\* link, directory and file of every instance and of the shared store) is
\* the filesystem before it.
C11_StateScanReadOnly ==
    op.name = "get_sync_state" => (fs = pre /\ op.muts = 0)

C11_Witness ==
    /\ op.name = "get_sync_state"
    /\ cfg.folders # {}
    /\ Get(fs, <<Store, "saves">>).k = "none"
    /\ \E i, j \in Eligible :
          /\ Get(fs, <<i, "saves">>).k = "link"
          /\ Get(fs, <<j, "saves">>).k = "dir"
    /\ op.ret.targets["saves"].cannot_sync_count > 0

\* The filesystem `f` without the entries the flagged instances hold at
\* path `name`.
WithoutFlagged(f, name) ==
    [p \in DOMAIN f |->
        IF p[1] \in Instances \ Eligible /\ p[2] = name THEN None ELSE f[p]]

\* C15: the instances whose disable_file_syncing flag is set are outside
\* enable_all and get_sync_state: enable_all changes nothing in them and
\* returns what it returns when they hold nothing at the path;
\* get_sync_state counts them in neither total_count, sync_count nor
\* cannot_sync_count of any target; disable_all that succeeds leaves no
\* instance, flagged or not, with a link to the shared subdirectory.
C15_FlaggedInstancesOutside ==
    /\ FolderCall("enable_all") =>
          /\ \A i \in Instances \ Eligible : EntryAfter(i) = EntryBefore(i)
          /\ op.ret = enable_all(WithoutFlagged(pre, op.target), op.target,
                                 FALSE, disabled, {}).ret
    /\ op.name = "get_sync_state" =>
          /\ op.ret.total_count = Cardinality(Eligible)
          /\ \A n \in DOMAIN op.ret.targets :
                /\ op.ret.targets[n].sync_count + op.ret.targets[n].cannot_sync_count
                      <= Cardinality(Eligible)
                /\ (~op.ret.targets[n].is_file /\ SafePathNew(n)) =>
                      /\ op.ret.targets[n].sync_count =
                            Cardinality({i \in Eligible :
                                LinksToShared(Get(fs, <<i, n>>), n)})
                      /\ op.ret.targets[n].cannot_sync_count <=
                            Cardinality({i \in Eligible :
                                /\ Get(fs, <<i, n>>).k # "none"
                                /\ ~LinksToShared(Get(fs, <<i, n>>), n)})
          /\ op.ret = get_sync_state(WithoutFlagged(WithoutFlagged(fs, "saves"),
                                                    "config"), cfg, disabled)
    /\ (FolderCall("disable_all") /\ op.ret = "ok") =>
          \A i \in Instances \ Eligible :
              ~LinksToShared(EntryAfter(i), op.target)

C15_Witness ==
    /\ FolderCall("enable_all") /\ op.ret = "true" /\ op.muts > 0
    /\ \E i \in Instances \ Eligible : EntryBefore(i).k = "dir"

----------------------------------------------------------------------------
(* Claims about retries and failures of the bulk operations (SpecBulk)     *)

IsRetry(name) == FolderCall(name) /\ op.rep

\* The filesystem `f` with every link to the shared subdirectory of the
\* target removed from every instance.
AllUnlinked(f) ==
    [p \in DOMAIN f |->
        IF p[1] # Store /\ p[2] = op.target /\ LinksToShared(f[p], op.target)
        THEN None ELSE f[p]]

\* The eligible instances that enable_all still has to link.
Remaining == {i \in Eligible : ~LinksToShared(EntryBefore(i), op.target)}

\* C13: retrying is idempotent.  A disable_all repeated after a successful
\* or partly completed disable_all, once it succeeds, leaves the state a
\* single full disable_all leaves, and changes nothing when the call before
\* it had succeeded; an enable_all repeated after a successful one returns
\* true and changes nothing; repeated after one that failed with an I/O
\* error it leaves the instances already linked alone and, when it succeeds,
\* links exactly the remaining ones.
C13_RetryIdempotent ==
    /\ (IsRetry("disable_all") /\ op.ret = "ok") => fs = AllUnlinked(run.fs)
    /\ (IsRetry("disable_all") /\ run.ret = "ok")
       => (op.ret = "ok" /\ fs = pre /\ op.muts = 0)
    /\ (IsRetry("enable_all") /\ run.ret = "true")
       => (op.ret = "true" /\ fs = pre /\ op.muts = 0)
    /\ (IsRetry("enable_all") /\ run.ret = "err")
       => /\ \A i \in Eligible \ Remaining : EntryAfter(i) = EntryBefore(i)
          /\ op.ret = "true" =>
                /\ \A i \in Remaining :
                      LinksToShared(EntryAfter(i), op.target)
                /\ \A i \in Instances \ Remaining :
                      EntryAfter(i) = EntryBefore(i)

C13_Witness ==
    /\ IsRetry("enable_all") /\ run.ret = "err" /\ op.ret = "true"
    /\ Eligible \ Remaining # {}
    /\ Remaining # {}
    /\ run.fs # pre

\* The least member of a non-empty set of positions.
First(S) == CHOOSE x \in S : \A y \in S : x <= y

\* The positions, in the order disable_all processes the instances, at
\* which the unlink raises an I/O error.
DisableErrors ==
    {x \in DOMAIN inj.order :
        /\ LinksToShared(EntryBefore(inj.order[x]), op.target)
        /\ inj.order[x] \in inj.deny}

\* The instances enable_all links, in the order it processes them.
EnablePaths ==
    SelectSeq(inj.order, LAMBDA i : i \in Remaining)

\* The positions at which making the link raises an I/O error.
EnableErrors ==
    {x \in DOMAIN EnablePaths :
        \/ EnablePaths[x] \in inj.deny
        \/ EntryBefore(EnablePaths[x]).k # "none"}

\* Making the shared subdirectory raises an I/O error.
EnableDirError ==
    Get(pre, <<Store, op.target>>).k # "dir" /\ Store \in inj.deny

\* C14: the bulk operations are fail-fast.  When an I/O error occurs at the
\* i-th instance in processing order, the call returns the error, the
\* instances before i keep the change made to them and the entries of the
\* i-th and of every later instance are as they were before the call; the
\* call succeeds when no I/O error occurs.
C14_FailFast ==
    /\ FolderCall("disable_all") =>
          IF DisableErrors = {} THEN op.ret = "ok"
          ELSE /\ op.ret = "err"
               /\ \A x \in DOMAIN inj.order :
                     EntryAfter(inj.order[x]) =
                        IF x < First(DisableErrors)
                           /\ LinksToShared(EntryBefore(inj.order[x]), op.target)
                        THEN None
                        ELSE EntryBefore(inj.order[x])
    /\ (FolderCall("enable_all") /\ op.ret # "false") =>
          IF EnableDirError THEN op.ret = "err" /\ fs = pre
          ELSE IF EnableErrors = {} THEN op.ret = "true"
          ELSE /\ op.ret = "err"
               /\ \A x \in DOMAIN EnablePaths :
                     EntryAfter(EnablePaths[x]) =
                        IF x < First(EnableErrors)
                        THEN Link(<<Store, op.target>>)
                        ELSE EntryBefore(EnablePaths[x])
               /\ \A i \in Instances \ Remaining :
                     EntryAfter(i) = EntryBefore(i)

C14_Witness ==
    /\ FolderCall("disable_all") /\ op.ret = "err"
    /\ \E x, y \in DOMAIN inj.order :
          /\ x < First(DisableErrors)
          /\ LinksToShared(EntryBefore(inj.order[x]), op.target)
          /\ EntryAfter(inj.order[x]).k = "none"
          /\ y > First(DisableErrors)
          /\ LinksToShared(EntryAfter(inj.order[y]), op.target)

----------------------------------------------------------------------------
(* Claims about mod linking (SpecLinking)                                   *)

\* The entry at the link path before the last call is a link whose stored
\* target is the `original` the call was given.
WasExactLink ==
    /\ Get(pre, LinkPath(op.i)).k = "link"
    /\ Get(pre, LinkPath(op.i)).to = <<Store, op.target>>

\* C12: unlink_dir_if_targeting(original, link) removes the entry at `link`
\* exactly when it is a link whose stored target equals `original`; when
\* `link` is missing, a real file or directory, or a link to another target,
\* it returns success and changes nothing; is_targeting answers true for the
\* exact link and false, without an error, in every other case.
C12_UnlinkOnlyExactLink ==
    /\ op.name = "unlink_dir_if_targeting" =>
          /\ op.ret = "ok"
          /\ fs = IF WasExactLink
                  THEN [pre EXCEPT ![LinkPath(op.i)] = None]
                  ELSE pre
    /\ op.name = "is_targeting" =>
          /\ fs = pre
          /\ op.ret = IF WasExactLink THEN "true" ELSE "false"

C12_Witness ==
    /\ op.name = "unlink_dir_if_targeting"
    /\ WasExactLink
    /\ Get(fs, LinkPath(op.i)).k = "none"
    /\ \E j \in Instances :
          /\ Get(fs, LinkPath(j)).k = "link"
          /\ Get(fs, LinkPath(j)).to[1] = Store
          /\ Get(fs, LinkPath(j)).to # <<Store, op.target>>

----------------------------------------------------------------------------
(* Claims about the Options Merger (SpecOptions)                            *)

IsMerge == op.name = "create_combined_options_txt"

OptionsPath(j) == <<j, OptionsName>>

\* What instance j contributes to the merge requested by instance op.i.
Contribution(j) ==
    LET read == read_options_txt(pre, OptionsPath(j))
    IN IF j = op.i THEN read
       ELSE [k \in (DOMAIN read) \ {ResourcePacks, IncompatibleResourcePacks}
                |-> read[k]]

Contributors(key) == {j \in Instances : key \in DOMAIN Contribution(j)}

Newest(key) ==
    {j \in Contributors(key) :
        \A j2 \in Contributors(key) :
            TouchTime(pre, OptionsPath(j2)) <= TouchTime(pre, OptionsPath(j))}

Merged == parse_lines(op.ret, <<>>)

Baseline == read_options_txt(pre, <<Store, FallbackName>>)

AsLine(key, value) == <<key>> \o <<":">> \o <<value>>

\* The example of the claim: the files {a:1}, {a:2, b:1} and
\* {a:3, resourcePacks:x}, oldest to newest, the newest being `current`, and
\* no other file nor a baseline.
IsExample ==
    /\ IsMerge
    /\ Get(pre, <<Store, FallbackName>>).k = "none"
    /\ \E j1, j2 \in Instances :
          /\ Cardinality({j1, j2, op.i}) = 3
          /\ Get(pre, OptionsPath(j1)).data = OptA
          /\ Get(pre, OptionsPath(j2)).data = OptB
          /\ Get(pre, OptionsPath(op.i)).data = OptC
          /\ Get(pre, OptionsPath(j1)).time < Get(pre, OptionsPath(j2)).time
          /\ Get(pre, OptionsPath(j2)).time < Get(pre, OptionsPath(op.i)).time
          /\ \A j \in Instances \ {j1, j2, op.i} :
                Get(pre, OptionsPath(j)).k = "none"

\* C6: the merge is last-writer-wins per key: every key of the baseline or of
\* an instance's filtered contribution is in the result; a key some instance
\* contributes has the value of a contributor with the greatest
\* max(created, modified); any other key has the baseline's value; and the
\* example yields exactly a:3, b:1, resourcePacks:x.
C6_LastWriterWins ==
    IsMerge =>
        /\ DOMAIN Merged =
              (DOMAIN Baseline) \cup
              UNION {DOMAIN Contribution(j) : j \in Instances}
        /\ \A key \in DOMAIN Merged :
              IF Contributors(key) # {}
              THEN \E j \in Newest(key) : Merged[key] = Contribution(j)[key]
              ELSE Merged[key] = Baseline[key]
        /\ IsExample =>
              /\ Len(op.ret) = 3
              /\ Range(op.ret) = { AsLine("a", "3"), AsLine("b", "1"),
                                   AsLine("resourcePacks", "x") }

C6_Witness == IsExample

----------------------------------------------------------------------------
(* Claims about apply_to_instance (SpecFiles)                               *)

IsApply == op.name = "apply_to_instance"

\* C1: apply_to_instance leaves the real (non-link) content that an instance
\* holds at the path of a folder target exactly as it was, whatever else is
\* configured in targets.files and targets.folders.
C1_RealContentKept ==
    IsApply =>
        \A n \in cfg.folders, j \in Instances :
            Get(pre, <<j, n>>).k \in {"dir", "file"}
            => Get(fs, <<j, n>>) = Get(pre, <<j, n>>)

\* C5: a second apply_to_instance with the same arguments, made directly
\* after the first, performs no filesystem mutation.
C5_SecondCallMutatesNothing ==
    (IsApply /\ op.rep) => op.muts = 0

\* C7: the values of resourcePacks and incompatibleResourcePacks that
\* apply_to_instance writes to an instance's options.txt are the ones that
\* instance's own options.txt held: a value of another instance's file is
\* never written into it.
C7_ResourcePacksOwnOnly ==
    (IsApply /\ OptionsName \in cfg.files) =>
        \A key \in {ResourcePacks, IncompatibleResourcePacks} :
            LET after == read_options_txt(fs, OptionsPath(op.i))
                before == read_options_txt(pre, OptionsPath(op.i))
            IN key \in DOMAIN after
               => (key \in DOMAIN before /\ after[key] = before[key])

\* The names of the fixed default-folder list.
DefaultFolderNames == {DEFAULT_FOLDERS[x] : x \in DOMAIN DEFAULT_FOLDERS}

\* C19: get_sync_state reports every folder name of targets.folders with
\* enabled = true, and every default folder that is not in targets.folders
\* with enabled = false and a sync_count that is the number of eligible
\* instances still linked to its shared subdirectory.
C19_DisabledDefaultsReported ==
    op.name = "get_sync_state" =>
        /\ \A n \in cfg.folders :
              /\ n \in DOMAIN op.ret.targets
              /\ op.ret.targets[n].enabled
              /\ ~op.ret.targets[n].is_file
        /\ \A n \in DefaultFolderNames \ cfg.folders :
              /\ n \in DOMAIN op.ret.targets
              /\ ~op.ret.targets[n].enabled
              /\ ~op.ret.targets[n].is_file
              /\ op.ret.targets[n].sync_count =
                    Cardinality({i \in Eligible :
                        LinksToShared(Get(fs, <<i, n>>), n)})

C19_Witness ==
    /\ op.name = "get_sync_state"
    /\ "saves" \notin cfg.folders
    /\ ~op.ret.targets["saves"].enabled
    /\ op.ret.targets["saves"].sync_count >= 1
    /\ "screenshots" \in DOMAIN op.ret.targets

----------------------------------------------------------------------------
(* Claims about the file targets (SpecLatest)                               *)

\* The positions, in scan order, of the instances that hold file target n.
Holders(n) ==
    {x \in DOMAIN inj.order : pre[<<inj.order[x], n>>].k # "none"}

\* The copy find_latest is to return: the earliest scanned of the copies
\* with the greatest timestamp.
Winner(n) ==
    <<inj.order[First({x \in Holders(n) :
          \A y \in Holders(n) :
              pre[<<inj.order[y], n>>].time <= pre[<<inj.order[x], n>>].time})],
      n>>

\* A copy is to be made into the instance of the call: some copy exists,
\* the winner is not the instance's own copy, and std::fs::copy can succeed
\* (it copies a regular file, and not onto a directory).
CopyDue(n) ==
    /\ Holders(n) # {}
    /\ Winner(n) # <<op.i, n>>
    /\ pre[Winner(n)].k = "file"
    /\ pre[<<op.i, n>>].k # "dir"

\* C18: for every valid file target other than options.txt,
\* apply_to_instance copies into the instance the copy find_latest selects
\* (the existing copy with the greatest max(created, modified), the earliest
\* scanned on a tie) and changes nothing else; it copies nothing when no
\* instance holds the file or the selected copy is the instance's own.
C18_CopiesLatestOnly ==
    IsApply =>
        \A n \in cfg.files \ {OptionsName} : SafePathNew(n) =>
            /\ (Holders(n) # {}) =>
                  find_latest(pre, n, inj.order) = Winner(n)
            /\ (Holders(n) = {}) => find_latest(pre, n, inj.order) = NoPath
            /\ \A p \in DOMAIN fs :
                  IF p = <<op.i, n>> /\ CopyDue(n)
                  THEN \E t \in 0..now :
                          fs[p] = File(pre[Winner(n)].data, t)
                  ELSE fs[p] = pre[p]

C18_Witness ==
    /\ IsApply /\ CopyDue("servers.dat")
    /\ fs[<<op.i, "servers.dat">>].data = pre[Winner("servers.dat")].data
    /\ \E x \in Holders("servers.dat") :
          /\ pre[<<inj.order[x], "servers.dat">>].time
                = pre[Winner("servers.dat")].time
          /\ pre[<<inj.order[x], "servers.dat">>].data
                # pre[Winner("servers.dat")].data
          /\ inj.order[x] # op.i

----------------------------------------------------------------------------
(* Claims about concurrent calls (SpecRace)                                 *)

AllDone == \A x \in DOMAIN procs : procs[x].pc = "done"

\* What the racing calls may do to the entry of instance i at the target: a
\* real directory stays as it was at every moment, and once every call has
\* returned the entry is absent, a link to the shared subdirectory, or what
\* it was before the calls.
RaceKeeps(i) ==
    LET before == pre[<<i, RaceName>>]
        after == fs[<<i, RaceName>>]
    IN /\ before.k = "dir" => after = before
       /\ AllDone => \/ after = None
                     \/ LinksToShared(after, RaceName)
                     \/ after = before

\* C20: under any interleaving of the filesystem calls of concurrently
\* running enable_all, disable_all and apply_to_instance calls on one folder
\* target, no real directory of an instance is removed or replaced by a
\* link, and every instance path of the target ends absent, as a link to the
\* shared subdirectory, or as the content it had before.
C20_RaceKeepsRealContent == \A i \in Instances : RaceKeeps(i)

\* The same when the target is not also configured as a file target.
C20_RaceKeepsUnlessFileTarget ==
    RaceName \notin cfg.files => \A i \in Instances : RaceKeeps(i)

\* cannot_sync_count of the target of the last call, as get_sync_state
\* reports it on the filesystem the call started from.
CannotSyncBefore ==
    get_sync_state(pre, cfg, disabled).targets[op.target].cannot_sync_count

\* C22: for a valid folder name, enable_all returns true exactly when
\* get_sync_state on the same filesystem reports cannot_sync_count = 0 for
\* the name, and false exactly when it reports cannot_sync_count > 0.
C22_ScanAgreesWithEnable ==
    FolderCall("enable_all") =>
        /\ (op.ret = "true") <=> (CannotSyncBefore = 0)
        /\ (op.ret = "false") <=> (CannotSyncBefore > 0)

\* The same where no eligible instance holds a link that does not resolve.
C22_AgreesUnlessDangling ==
    (/\ FolderCall("enable_all")
     /\ \A i \in Eligible :
           EntryBefore(i).k = "link" => Exists(pre, <<i, op.target>>))
    => /\ (op.ret = "true") <=> (CannotSyncBefore = 0)
       /\ (op.ret = "false") <=> (CannotSyncBefore > 0)

\* The scans that have returned.
Scans ==
    {x \in DOMAIN procs :
        procs[x].call = "get_sync_state" /\ procs[x].pc = "done"}

\* C21: in every SyncState get_sync_state returns, also from a scan that
\* ran while enable_all, disable_all or apply_to_instance changed the
\* target, every entry has sync_count + cannot_sync_count <= total_count,
\* with equality for the entries of file targets and of invalid targets.
C21_CountsWithinTotal ==
    \A x \in Scans :
        LET state == procs[x].ret
        IN \A n \in DOMAIN state.targets :
              LET t == state.targets[n]
              IN /\ t.sync_count + t.cannot_sync_count <= state.total_count
                 /\ (t.is_file \/ ~SafePathNew(n)) =>
                       t.sync_count + t.cannot_sync_count = state.total_count

\* A scan that saw the target mid-transition: what it returned is neither
\* the SyncState of the filesystem the calls started from nor that of the
\* filesystem they left.
C21_Witness ==
    /\ AllDone
    /\ \E x \in Scans :
          /\ RaceName \in DOMAIN procs[x].ret.targets
          /\ procs[x].ret # get_sync_state(pre, cfg, disabled)
          /\ procs[x].ret # get_sync_state(fs, cfg, disabled)

\* C23: every configured target is reported under its own kind: every name
\* of targets.files has an entry with is_file = true and enabled = true and
\* every name of targets.folders an entry with is_file = false, also when a
\* name is in both sets or a file target has the name of a default folder.
C23_OwnKind ==
    \A x \in Scans :
        LET targets == procs[x].ret.targets
        IN /\ \A n \in cfg.files :
                 /\ n \in DOMAIN targets
                 /\ targets[n].is_file
                 /\ targets[n].enabled
           /\ \A n \in cfg.folders :
                 n \in DOMAIN targets /\ ~targets[n].is_file

\* The same for the file targets that are neither folder targets nor named
\* like a default folder, and for every folder target.
C23_OwnKindUnlessShared ==
    \A x \in Scans :
        LET targets == procs[x].ret.targets
        IN /\ \A n \in cfg.files \ (cfg.folders \cup DefaultFolderNames) :
                 /\ n \in DOMAIN targets
                 /\ targets[n].is_file
                 /\ targets[n].enabled
           /\ \A n \in cfg.folders :
                 n \in DOMAIN targets /\ ~targets[n].is_file

----------------------------------------------------------------------------
(* Claims about the syncing page (SpecPage, SpecPageFair)                  *)

\* The targets a step removes from loading.
Cleared == page.loading \ page'.loading

\* C24: a target leaves loading only when the answer arrives to a request
\* that was sent after the target's SetSyncing message, and pending is
\* always a subset of loading.
C24_ClearedByLaterRequest ==
    [][ /\ \A t \in Cleared :
              /\ page'.shown # page.shown
              /\ page'.shown > page.toggled[t]
        /\ page'.pending \subseteq page'.loading ]_vars

\* What holds of C24: the request was sent after the SetSyncing message
\* that put the target into loading, and pending is a subset of loading.
C24_ClearedAfterEntering ==
    [][ /\ \A t \in Cleared :
              /\ page'.shown # page.shown
              /\ page'.shown > page.entered[t]
        /\ page'.pending \subseteq page'.loading ]_vars

\* The page is at rest: nothing loading, nothing pending, no request out.
AtRest ==
    /\ page.loading = {}
    /\ page.pending = {}
    /\ page.requests = {}
    /\ page.task = 0

\* C25: when the backend answers every request, every target in loading
\* eventually leaves it, the page comes to rest once the clicks have been
\* answered, and while a target is loading the page's task awaits a
\* request that is in flight.
C25_LoadingClears ==
    /\ \A t \in PageTargets :
          (t \in page.loading) ~> (t \notin page.loading)
    /\ <>[]AtRest
    /\ [](page.loading # {} =>
             /\ page.task # 0
             /\ page.task \in page.requests)
    /\ [](page.loading = {} /\ page.shown # 0 => AtRest)

\* A target clicked while the request for another was out: the answer to
\* that request left it loading, a second request was sent for it, and its
\* answer brought the page to rest.
C25_Witness ==
    /\ AtRest
    /\ page.toggled["saves"] = 2
    /\ page.toggled["config"] = 4
    /\ page.shown = 5

----------------------------------------------------------------------------
(* Claims about the cleanup pass (SpecCleanup)                              *)

\* The entry is a link into the shared store.
IsStoreLink(e) == e.k = "link" /\ e.to[1] = Store

\* C16: after an apply_to_instance without I/O failure, the instance tree
\* holds no link into the shared store at a relative path that is not in
\* targets.folders, and every link whose relative path is in targets.folders
\* is kept.
C16_NoStaleLinkRemains ==
    (IsApply /\ inj.deny = {} /\ inj.walk.unreadable = {}) =>
        \A n \in TrackedNames :
            /\ n \notin cfg.folders => ~IsStoreLink(fs[<<op.i, n>>])
            /\ (n \in cfg.folders /\ pre[<<op.i, n>>].k = "link")
               => fs[<<op.i, n>>] = pre[<<op.i, n>>]

\* The filesystem the last apply_to_instance leaves when every directory
\* can be listed.
WithoutReadError ==
    apply_to_instance(pre, cfg, op.i, inj.order,
                      Walk(inj.walk.order, {}), inj.deny).fs

\* C17: the cleanup is best-effort per entry: when a directory of the
\* instance tree cannot be read, the stale links at all other entries are
\* still removed and the file and folder passes still run for every target:
\* outside the unreadable directory the result is the one of a call that
\* met no error.
C17_CleanupBestEffort ==
    IsApply =>
        \A p \in DOMAIN fs :
            <<p[1], Parent(p[2])>> \notin inj.walk.unreadable
            => fs[p] = WithoutReadError[p]

----------------------------------------------------------------------------
(* Claims about the legacy migration (SpecLegacy)                           *)

IsLegacyLoad ==
    op.name = "load" /\ stored.kind = "number" /\ stored.n >= 0

SetBits == {b \in 0..(LegacyBits - 1) : (stored.n \div Pow2(b)) % 2 = 1}

LegacyFileBits == {0, 1, 2, 13}

LegacyFileName(b) ==
    CASE b = 0 -> "options.txt"
      [] b = 1 -> "servers.dat"
      [] b = 2 -> "command_history.txt"
      [] b = 13 -> "hotbar.nbt"

\* The folder bits 3..12 and 14 name the default folders in their order.
LegacyFolderName(b) == DEFAULT_FOLDERS[IF b = 14 THEN 11 ELSE b - 2]

\* C9: decoding a legacy numeric value yields exactly the named targets of
\* the set bits: bits 0, 1, 2 and 13 give the file entries options.txt,
\* servers.dat, command_history.txt and hotbar.nbt, every other bit gives its
\* folder entry; bits 3 and 4 alone give folders = {saves, config}, files = {}.
C9_LegacyDecoding ==
    IsLegacyLoad =>
        /\ cfg.files = {LegacyFileName(b) : b \in SetBits \cap LegacyFileBits}
        /\ cfg.folders = {LegacyFolderName(b) : b \in SetBits \ LegacyFileBits}
        /\ Cardinality(cfg.files) + Cardinality(cfg.folders) = Cardinality(SetBits)
        /\ stored.n = 24 => cfg = SyncTargets({}, {"saves", "config"})

C9_Witness == IsLegacyLoad /\ stored.n = 24

====
